---------------------------- MODULE Spec2Model ----------------------------
(***************************************************************************)
(* A model of the Numis coin-collection tracker:                           *)
(*   - backend/scraper.py         CoinScraper (ECB fetch loop, extractor,  *)
(*                                value estimator, merge, fallback list)   *)
(*   - backend/scraper_2euros.py  TwoEurosScraper (secondary source)       *)
(*   - backend/server.py          the REST handlers over the database      *)
(*                                                                         *)
(* Python strings on which the code computes (lower, strip, startswith,    *)
(* regular expressions) are sequences of one-character strings; URLs are   *)
(* sequences of pieces ("http", "unsplash", ...) so that startswith and    *)
(* the substring test are decided on the pieces.  Money (Python floats)    *)
(* is counted in cents.  Python's None is the model value None.            *)
(***************************************************************************)
EXTENDS Integers, Sequences, FiniteSets, TLC

VARIABLES
    pc,          \* position of the running operation
    mintage,     \* estimate_value: argument
    condition,   \* estimate_value: argument
    value_ecb,   \* estimate_value: result of CoinScraper.estimate_value
    value_2e,    \* estimate_value: result of TwoEurosScraper.estimate_value
    box,         \* extract_coin_from_box: the div.box handed to it
    year,        \* extract_coin_from_box, parse_year_page: the year processed
    box_result,  \* extract_coin_from_box: what the call did (coin, None, raise)
    year_coins,  \* parse_year_page: the list returned for the page of that box
    ecb_coins,   \* scrape_coins, merge_coin_data: the primary (ECB) list
    coins_2euros, \* scrape_coins, merge_coin_data: the secondary (2euros.org) list
    merged,      \* merge_coin_data: the list returned, each entry with the
                 \* object it is (an input dict, or a dict built by the merge)
    coins,       \* scrape_ecb_coins: the list being built
    country_i,   \* scrape_all_coins: the position of the loop in the countries
    all_coins,   \* scrape_all_coins: the list being built
    result,      \* scrape_coins: the list returned
    requests,    \* the items requested so far by the running fetch loop
    slept,       \* whether the delay has elapsed since the last request
    back_to_back, \* whether a request was sent without the delay before it
    statuses,    \* the outcomes met by scrape_ecb_coins: "ok", "non200", "raise"
    ok_pages,    \* the pages with boxes that the running scrape_ecb_coins got
                 \* with status 200, each with its year, in the order of the requests
    db_users,    \* server: the documents of db.users
    db_coins,    \* server: the documents of db.coins
    db_collection, \* server: the documents of db.collection, in insertion order
    handler,     \* server: for each request, where its handler stands
    request,     \* server: for each request, the route and its parameters
    response,    \* server: for each request, the answer sent
    uuid_count,  \* server: the number of uuid4 drawn for collection items
    soup,        \* parse_country_page: the elements of the page handed to it
    country_slug, \* parse_country_page: the country handed to it
    country_coins \* parse_country_page: the list returned

valueVars == <<mintage, condition, value_ecb, value_2e>>
extractVars == <<box, year, box_result, year_coins>>
mergeVars == <<ecb_coins, coins_2euros, merged>>
loopVars == <<requests, slept, back_to_back, statuses, ok_pages>>
scrapeVars == <<coins, country_i, all_coins, result, loopVars>>
apiVars == <<db_users, db_coins, db_collection, handler, request, response, uuid_count>>
pageVars == <<soup, country_slug, country_coins>>
vars == <<pc, valueVars, extractVars, mergeVars, scrapeVars, apiVars, pageVars>>

None == "None"

\* A local variable of scrape_coins that is not bound yet.  It is a list as its
\* later values are, so that two states of a run can always be compared.
Unbound == <<[unbound |-> TRUE]>>

\* The variables of the operations a specification does not run.
IdleValue ==
    /\ mintage = None
    /\ condition = None
    /\ value_ecb = None
    /\ value_2e = None

IdleExtract ==
    /\ box = None
    /\ year = None
    /\ box_result = None
    /\ year_coins = None

IdleMerge ==
    /\ ecb_coins = None
    /\ coins_2euros = None
    /\ merged = None

IdleScrape ==
    /\ coins = None
    /\ country_i = None
    /\ all_coins = None
    /\ result = None
    /\ requests = None
    /\ slept = None
    /\ back_to_back = None
    /\ statuses = None
    /\ ok_pages = None

IdlePage ==
    /\ soup = None
    /\ country_slug = None
    /\ country_coins = None

IdleApi ==
    /\ db_users = None
    /\ db_coins = None
    /\ db_collection = None
    /\ handler = None
    /\ request = None
    /\ response = None
    /\ uuid_count = None

Min(a, b) == IF a <= b THEN a ELSE b

(***************************************************************************)
(* Python strings                                                          *)
(*                                                                         *)
(* A text is a sequence of tokens: one-character strings, and words the    *)
(* code only ever treats as a unit (the label "Issuing volume", the pieces *)
(* of a URL).                                                              *)
(***************************************************************************)

Lowers == <<"a", "b", "c", "d", "e", "f", "g", "h", "i", "j", "k", "l", "m",
            "n", "o", "p", "q", "r", "s", "t", "u", "v", "w", "x", "y", "z">>
Uppers == <<"A", "B", "C", "D", "E", "F", "G", "H", "I", "J", "K", "L", "M",
            "N", "O", "P", "Q", "R", "S", "T", "U", "V", "W", "X", "Y", "Z">>
Digits == <<"0", "1", "2", "3", "4", "5", "6", "7", "8", "9">>
Whitespace == {" ", "\n", "\t"}

Range(s) == {s[i] : i \in DOMAIN s}
IsUpper(c) == c \in Range(Uppers)
IsLower(c) == c \in Range(Lowers)
IsAlpha(c) == IsUpper(c) \/ IsLower(c)
IsDigit(c) == c \in Range(Digits)
IndexIn(c, s) == CHOOSE i \in DOMAIN s : s[i] = c
LowerChar(c) == IF IsUpper(c) THEN Lowers[IndexIn(c, Uppers)] ELSE c
UpperChar(c) == IF IsLower(c) THEN Uppers[IndexIn(c, Lowers)] ELSE c

\* str.lower()
Lower(s) == [i \in DOMAIN s |-> LowerChar(s[i])]

\* the least and the greatest element of a set of numbers that is not empty
MinOf(S) == CHOOSE i \in S : \A j \in S : i <= j
MaxOf(S) == CHOOSE i \in S : \A j \in S : i >= j

\* str.strip(): leading and trailing whitespace removed; `keep` is the set of
\* the positions that hold no whitespace
StripTo(s, keep) == IF keep = {} THEN <<>> ELSE SubSeq(s, MinOf(keep), MaxOf(keep))
Strip(s) == StripTo(s, {i \in DOMAIN s : s[i] \notin Whitespace})

\* str.replace(c, ''): every occurrence of the character removed
Remove(s, c) == SelectSeq(s, LAMBDA x : x # c)

\* str.replace(a, b) for single characters
ReplaceChar(s, a, b) == [i \in DOMAIN s |-> IF s[i] = a THEN b ELSE s[i]]

\* str.title(): the first letter of every run of letters in upper case, the
\* other letters in lower case
Title(s) ==
    [i \in DOMAIN s |->
        IF i = 1 \/ ~IsAlpha(s[i - 1]) THEN UpperChar(s[i]) ELSE LowerChar(s[i])]

\* s[:n]
Prefix(s, n) == SubSeq(s, 1, Min(n, Len(s)))

\* the length of the longest run of tokens satisfying P that starts at s[from]
RunLen(s, from, P(_)) ==
    MaxOf({e \in (from - 1)..Len(s) : \A k \in from..e : P(s[k])}) - (from - 1)

\* int(s), for a string of the characters the callers leave in it: digits and
\* inner whitespace.  A record [ok, val]; ok is FALSE where int raises ValueError.
RECURSIVE DigitsValue(_)
DigitsValue(s) ==
    IF s = <<>> THEN 0
    ELSE 10 * DigitsValue(SubSeq(s, 1, Len(s) - 1)) + (IndexIn(s[Len(s)], Digits) - 1)
IntOfStripped(t) ==
    IF t # <<>> /\ \A i \in DOMAIN t : IsDigit(t[i])
    THEN [ok |-> TRUE, val |-> DigitsValue(t)]
    ELSE [ok |-> FALSE, val |-> 0]
PyInt(s) == IntOfStripped(Strip(s))

\* Optional values: <<>> is None, <<x>> is x
Some(x) == <<x>>
Nothing == <<>>
IsNone(o) == o = <<>>

(***************************************************************************)
(* Value estimator                                                         *)
(***************************************************************************)

\* cents of a whole number of euros (15.0 is Euro(15))
Euro(n) == n * 100

\* The mutant reads the first band's limit as inclusive.
CoinScraper_estimate_value_inclusive(m, cond) ==
    LET base_values ==
            IF m <= 100000 THEN [fdc |-> Euro(15), bu |-> Euro(30), be |-> Euro(60)]
            ELSE IF m < 500000 THEN [fdc |-> Euro(8), bu |-> Euro(15), be |-> Euro(30)]
            ELSE IF m < 1000000 THEN [fdc |-> Euro(5), bu |-> Euro(10), be |-> Euro(20)]
            ELSE IF m < 5000000 THEN [fdc |-> Euro(4), bu |-> Euro(7), be |-> Euro(14)]
            ELSE [fdc |-> Euro(3), bu |-> Euro(5), be |-> Euro(10)]
    IN  IF cond \in DOMAIN base_values THEN base_values[cond] ELSE Euro(4)

\* CoinScraper.estimate_value(mintage, condition)
CoinScraper_estimate_value(m, cond) ==
    LET base_values ==
            IF m < 100000 THEN [fdc |-> Euro(15), bu |-> Euro(30), be |-> Euro(60)]
            ELSE IF m < 500000 THEN [fdc |-> Euro(8), bu |-> Euro(15), be |-> Euro(30)]
            ELSE IF m < 1000000 THEN [fdc |-> Euro(5), bu |-> Euro(10), be |-> Euro(20)]
            ELSE IF m < 5000000 THEN [fdc |-> Euro(4), bu |-> Euro(7), be |-> Euro(14)]
            ELSE [fdc |-> Euro(3), bu |-> Euro(5), be |-> Euro(10)]
    IN  IF cond \in DOMAIN base_values THEN base_values[cond] ELSE Euro(4)

\* The mutant gives the band's lowest grade to a tag that is not a grade.
TwoEurosScraper_estimate_value_lowest(m, cond) ==
    LET base_values ==
            IF m < 100000 THEN [fdc |-> Euro(15), bu |-> Euro(30), be |-> Euro(60)]
            ELSE IF m < 500000 THEN [fdc |-> Euro(8), bu |-> Euro(15), be |-> Euro(30)]
            ELSE IF m < 1000000 THEN [fdc |-> Euro(5), bu |-> Euro(10), be |-> Euro(20)]
            ELSE IF m < 5000000 THEN [fdc |-> Euro(4), bu |-> Euro(7), be |-> Euro(14)]
            ELSE [fdc |-> Euro(3), bu |-> Euro(5), be |-> Euro(10)]
    IN  IF cond \in DOMAIN base_values THEN base_values[cond] ELSE base_values["fdc"]

\* TwoEurosScraper.estimate_value(mintage, condition)
TwoEurosScraper_estimate_value(m, cond) ==
    LET base_values ==
            IF m < 100000 THEN [fdc |-> Euro(15), bu |-> Euro(30), be |-> Euro(60)]
            ELSE IF m < 500000 THEN [fdc |-> Euro(8), bu |-> Euro(15), be |-> Euro(30)]
            ELSE IF m < 1000000 THEN [fdc |-> Euro(5), bu |-> Euro(10), be |-> Euro(20)]
            ELSE IF m < 5000000 THEN [fdc |-> Euro(4), bu |-> Euro(7), be |-> Euro(14)]
            ELSE [fdc |-> Euro(3), bu |-> Euro(5), be |-> Euro(10)]
    IN  IF cond \in DOMAIN base_values THEN base_values[cond] ELSE Euro(4)

(***************************************************************************)
(* ECB page extractor (CoinScraper)                                        *)
(*                                                                         *)
(* A div.box is a record                                                   *)
(*   h3           Nothing, or Some(text of the first h3)                   *)
(*   img          Nothing, or Some([src |-> Nothing or Some(url)])         *)
(*   content_box  Nothing, or Some([p |-> Nothing or Some(text of the      *)
(*                first p), rest |-> the text after it])                   *)
(* and a page is the sequence of its boxes, in document order.             *)
(***************************************************************************)

EcbBaseUrl == <<"http", "s://www.ecb.europa.eu">>
FallbackImage ==
    <<"http", "s://images.", "unsplash",
      ".com/photo-1585483391381-b96dda4fae8f?q=85&w=600&auto=format&fit=crop">>

\* CoinScraper.__init__: the attributes an instance has
CoinScraper_self ==
    [base_url_ecb |-> EcbBaseUrl,
     coins_data |-> <<>>,
     headers |-> [User_Agent |-> "Mozilla/5.0 (Windows NT 10.0; Win64; x64) AppleWebKit/537.36"]]

\* url.startswith('http')
StartsWithHttp(url) == Len(url) > 0 /\ url[1] = "http"
\* 'unsplash' in url
ContainsUnsplash(url) == "unsplash" \in Range(url)

DefaultMintage == 1000000
MaxDescription == 200

\* re.search(r'Issuing volume[:\s]+([0-9,\s]+)', text, re.I): Nothing, or
\* Some(group 1) of the leftmost match, both repetitions greedy
IssuingVolumeLabels == {"Issuing volume", "issuing volume", "ISSUING VOLUME"}
IsSepChar(c) == c = ":" \/ c \in Whitespace
IsNumChar(c) == IsDigit(c) \/ c = "," \/ c \in Whitespace
SepLengths(text, i) ==
    {a \in 1..RunLen(text, i + 1, IsSepChar) :
        i + a + 1 <= Len(text) /\ IsNumChar(text[i + a + 1])}
\* group 1 of the match whose label is text[i] and whose group starts at text[g]
VolumeGroup(text, g) == SubSeq(text, g, g + RunLen(text, g, IsNumChar) - 1)
VolumeMatchAt(text, i) == VolumeGroup(text, i + MaxOf(SepLengths(text, i)) + 1)
VolumeMatchIn(text, starts) ==
    IF starts = {} THEN Nothing ELSE Some(VolumeMatchAt(text, MinOf(starts)))
IssuingVolumeSearch(text) ==
    VolumeMatchIn(text, {i \in DOMAIN text :
                            text[i] \in IssuingVolumeLabels /\ SepLengths(text, i) # {}})

\* lines 184-193: the mintage read from the content-box text
MintageOfInt(parsed) == IF parsed.ok THEN parsed.val ELSE DefaultMintage
MintageOfMatch(mintage_match) ==
    IF IsNone(mintage_match) THEN DefaultMintage
    ELSE MintageOfInt(PyInt(Strip(Remove(Remove(mintage_match[1], ","), " "))))
ParseMintage(text) == MintageOfMatch(IssuingVolumeSearch(text))

\* lines 174-182: the description read from the first p of the content-box
\* (the default is "Piece commemorative" with its accents dropped)
FirstColon(feature_text) ==
    MinOf({i \in DOMAIN feature_text : feature_text[i] = ":"})
DescriptionOf(feature_text) ==
    IF ":" \in Range(feature_text)
    THEN Strip(SubSeq(feature_text, FirstColon(feature_text) + 1, Len(feature_text)))
    ELSE feature_text
ParseDescription(p) ==
    IF IsNone(p) THEN <<"Piece commemorative">> ELSE DescriptionOf(Strip(p[1]))

\* content_box.get_text()
ContentText(cb) == (IF IsNone(cb.p) THEN <<>> ELSE cb.p[1]) \o cb.rest

Unknown == <<"U", "n", "k", "n", "o", "w", "n">>

\* lines 195-204: the record returned
BoxCoin(country, y, description, m, image_url) ==
    [tag |-> "coin",
     coin |-> [country |-> country,
               year |-> y,
               description |-> Prefix(description, MaxDescription),
               mintage |-> m,
               image_url |-> IF image_url # <<>> THEN image_url ELSE FallbackImage,
               value_fdc |-> CoinScraper_estimate_value(m, "fdc"),
               value_bu |-> CoinScraper_estimate_value(m, "bu"),
               value_be |-> CoinScraper_estimate_value(m, "be")]]

\* lines 169-204: what follows the image, with the image URL found
BoxContent(b, y, image_url) ==
    IF IsNone(b.content_box) THEN [tag |-> "none"]
    ELSE BoxCoin(IF IsNone(b.h3) THEN Unknown ELSE Strip(b.h3[1]),
                 y,
                 ParseDescription(b.content_box[1].p),
                 ParseMintage(ContentText(b.content_box[1])),
                 image_url)

\* lines 161-167: the image; src is img.get('src', ''), or '' without img
BoxImage(b, y, src) ==
    IF src # <<>> /\ ~StartsWithHttp(src)
    THEN IF "base_url" \in DOMAIN CoinScraper_self
         THEN BoxContent(b, y, CoinScraper_self["base_url"] \o src)
         ELSE [tag |-> "raise", exc |-> "AttributeError"]
    ELSE BoxContent(b, y, src)

\* CoinScraper.extract_coin_from_box(box, year): [tag |-> "coin", coin |-> the
\* record], [tag |-> "none"] for None, [tag |-> "raise"] for an exception
extract_coin_from_box(b, y) ==
    BoxImage(b, y, IF IsNone(b.img) \/ IsNone(b.img[1].src) THEN <<>> ELSE b.img[1].src[1])

\* the coins of a list of results: those that are a coin, in order
CoinOfResult(r) == IF r.tag = "coin" THEN <<r.coin>> ELSE <<>>

\* CoinScraper.parse_year_page(soup, year): the coins of the boxes, in order; a
\* box whose extraction returns None or raises is skipped
RECURSIVE parse_year_page(_, _)
parse_year_page(page, y) ==
    IF page = <<>> THEN <<>>
    ELSE CoinOfResult(extract_coin_from_box(Head(page), y))
         \o parse_year_page(Tail(page), y)

(***************************************************************************)
(* Merge reconciler (CoinScraper.merge_coin_data)                          *)
(*                                                                         *)
(* The lists of the code hold references to dicts.  An entry of the merged *)
(* list is [src, i, j, coin]: src = "ecb" is the i-th dict of the primary  *)
(* list itself, src = "2euros" the j-th dict of the secondary list itself, *)
(* src = "new" a dict built by the merge from primary i and secondary j;   *)
(* coin is the dict's content.  euros_index, a dict of lists in insertion  *)
(* order, is a sequence of [key, queue] with queue the positions in the    *)
(* secondary list.                                                         *)
(***************************************************************************)

\* f"{coin['country'].lower().strip()}_{coin['year']}": the year is a number, so
\* the string is the pair of its two parts
MergeKey(coin) == <<Strip(Lower(coin.country)), coin.year>>

IndexKeys(index) == {index[k].key : k \in DOMAIN index}
IndexAt(index, key) == CHOOSE k \in DOMAIN index : index[k].key = key

\* lines 63-66: position j of the secondary list queued under its key
Queued(index, k, j) == [index EXCEPT ![k].queue = Append(@, j)]
WithKey(index, key) ==
    IF key \notin IndexKeys(index) THEN Append(index, [key |-> key, queue |-> <<>>])
    ELSE index
Enqueue(index, key, j) == Queued(WithKey(index, key), IndexAt(WithKey(index, key), key), j)

\* lines 61-66: the index of the secondary list, built from position j on
RECURSIVE BuildIndex(_, _, _)
BuildIndex(euros, j, index) ==
    IF j > Len(euros) THEN index
    ELSE BuildIndex(euros, j + 1, Enqueue(index, MergeKey(euros[j]), j))

\* The mutant reads the first secondary record of the queue and leaves it there.
PopFirst_Peek(queue) == queue

\* line 77: euros_index[key].pop(0): the queue after the pop
PopFirst(queue) == Tail(queue)

\* The mutant takes the record queued last.
Popped_Last(queue) == queue[Len(queue)]

\* line 77: euros_index[key].pop(0): the record that the pop returns
Popped(queue) == Head(queue)

\* The mutant takes the composite's values from the primary record.
MergedCoin_EcbValues(ecb_coin, euros_coin) ==
    [country |-> ecb_coin.country,
     year |-> ecb_coin.year,
     description |-> ecb_coin.description,
     mintage |-> ecb_coin.mintage,
     image_url |-> IF euros_coin.image_url # <<>> /\ ~ContainsUnsplash(euros_coin.image_url)
                   THEN euros_coin.image_url ELSE ecb_coin.image_url,
     value_fdc |-> ecb_coin.value_fdc,
     value_bu |-> ecb_coin.value_bu,
     value_be |-> ecb_coin.value_be]

\* The mutant gives the priority to the secondary record for the description
\* and the mintage.
MergedCoin_EurosDescription(ecb_coin, euros_coin) ==
    [country |-> ecb_coin.country,
     year |-> ecb_coin.year,
     description |-> euros_coin.description,
     mintage |-> euros_coin.mintage,
     image_url |-> IF euros_coin.image_url # <<>> /\ ~ContainsUnsplash(euros_coin.image_url)
                   THEN euros_coin.image_url ELSE ecb_coin.image_url,
     value_fdc |-> euros_coin.value_fdc,
     value_bu |-> euros_coin.value_bu,
     value_be |-> euros_coin.value_be]

\* The mutant always takes the composite's image from the secondary record.
MergedCoin_EurosImage(ecb_coin, euros_coin) ==
    [country |-> ecb_coin.country,
     year |-> ecb_coin.year,
     description |-> ecb_coin.description,
     mintage |-> ecb_coin.mintage,
     image_url |-> euros_coin.image_url,
     value_fdc |-> euros_coin.value_fdc,
     value_bu |-> euros_coin.value_bu,
     value_be |-> euros_coin.value_be]

\* lines 80-89: the composite of a primary and a secondary record
MergedCoin(ecb_coin, euros_coin) ==
    [country |-> ecb_coin.country,
     year |-> ecb_coin.year,
     description |-> ecb_coin.description,
     mintage |-> ecb_coin.mintage,
     image_url |-> IF euros_coin.image_url # <<>> /\ ~ContainsUnsplash(euros_coin.image_url)
                   THEN euros_coin.image_url ELSE ecb_coin.image_url,
     value_fdc |-> euros_coin.value_fdc,
     value_bu |-> euros_coin.value_bu,
     value_be |-> euros_coin.value_be]

\* line 74: key in euros_index and euros_index[key]
MatchFound(index, key) ==
    key \in IndexKeys(index) /\ index[IndexAt(index, key)].queue # <<>>

\* The mutant writes the composite into the primary dict and appends that dict.
MatchedEntry_InPlace(ecb, euros, i, j) ==
    [src |-> "ecb", i |-> i, j |-> j, coin |-> MergedCoin(ecb[i], euros[j])]

\* lines 76-90: the entry built from primary i and the head j of queue k
MatchedEntry(ecb, euros, i, j) ==
    [src |-> "new", i |-> i, j |-> j, coin |-> MergedCoin(ecb[i], euros[j])]
\* lines 91-93: the primary record itself
PassedEntry(ecb, i) == [src |-> "ecb", i |-> i, j |-> 0, coin |-> ecb[i]]

\* lines 72-93: one turn of the loop, for primary i with its key; the result
\* is [index, merged]
MergeStep(ecb, euros, i, index, out, k) ==
    [index |-> [index EXCEPT ![k].queue = PopFirst(@)],
     merged |-> Append(out, MatchedEntry(ecb, euros, i, Popped(index[k].queue)))]
MergeOne(ecb, euros, i, index, out, key) ==
    IF MatchFound(index, key)
    THEN MergeStep(ecb, euros, i, index, out, IndexAt(index, key))
    ELSE [index |-> index, merged |-> Append(out, PassedEntry(ecb, i))]

\* lines 69-95: the loop over the primary list from position i on, state being
\* [index, merged]
RECURSIVE MergeEcb(_, _, _, _)
MergeEcb(ecb, euros, i, state) ==
    IF i > Len(ecb) THEN state
    ELSE MergeEcb(ecb, euros, i + 1,
                  MergeOne(ecb, euros, i, state.index, state.merged, MergeKey(ecb[i])))

\* lines 98-99: the secondary records of one queue
QueueEntries(euros, queue) ==
    [n \in DOMAIN queue |->
        [src |-> "2euros", i |-> 0, j |-> queue[n], coin |-> euros[queue[n]]]]

\* lines 98-99: the secondary records left in the index, list by list
RECURSIVE Remaining(_, _)
Remaining(euros, index) ==
    IF index = <<>> THEN <<>>
    ELSE QueueEntries(euros, Head(index).queue) \o Remaining(euros, Tail(index))

\* lines 98-100: the result, from the state the loop ends in
MergeResult(euros, state) == state.merged \o Remaining(euros, state.index)

\* CoinScraper.merge_coin_data(ecb_coins, coins_2euros)
merge_coin_data(ecb, euros) ==
    MergeResult(euros, MergeEcb(ecb, euros, 1,
                                [index |-> BuildIndex(euros, 1, <<>>), merged |-> <<>>]))

\* The input lists as the caller reads them after the call.  The lists are
\* only iterated over (lines 62 and 69; pop(0) of line 76 acts on a list of
\* the index); a dict of an input that the merged list holds is one object
\* with it, and reads as the merged list has it.
EcbAfter(ecb, entries) ==
    [i \in DOMAIN ecb |->
        IF \E n \in DOMAIN entries : entries[n].src = "ecb" /\ entries[n].i = i
        THEN entries[CHOOSE n \in DOMAIN entries :
                         entries[n].src = "ecb" /\ entries[n].i = i].coin
        ELSE ecb[i]]
EurosAfter(euros, entries) ==
    [j \in DOMAIN euros |->
        IF \E n \in DOMAIN entries : entries[n].src = "2euros" /\ entries[n].j = j
        THEN entries[CHOOSE n \in DOMAIN entries :
                         entries[n].src = "2euros" /\ entries[n].j = j].coin
        ELSE euros[j]]

\* the contents of a list of entries: what a caller reading the dicts sees
Contents(entries) == [k \in DOMAIN entries |-> entries[k].coin]

(***************************************************************************)
(* Secondary source (TwoEurosScraper)                                      *)
(*                                                                         *)
(* An element of a country page is a record                                *)
(*   tag    "article", "div", "figure" or "a"                              *)
(*   class  the pieces of its class attribute                              *)
(*   img    Nothing, or Some([src, data_src]), each Nothing or Some(url)   *)
(*   title  Nothing, or Some(text of its first h1, h2, h3, h4 or a)        *)
(*   text   its get_text()                                                 *)
(*   near   for the element, its parent and its next sibling, in this      *)
(*          order: Nothing, or Some(text of the first h1-h4, a or p in it) *)
(* and a page is the sequence of its elements, in document order.  In a    *)
(* text, a word of letters is one token and every other character is a     *)
(* token of its own.                                                       *)
(***************************************************************************)

EurosBaseUrl == <<"http", "s://www.2euros.org">>
TwoEurosScraper_self ==
    [base_url |-> EurosBaseUrl,
     headers |-> [User_Agent |-> "Mozilla/5.0 (Windows NT 10.0; Win64; x64) AppleWebKit/537.36"]]

\* lines 26-32: the country slugs, in the order of the loop
Countries ==
    <<<<"a", "n", "d", "o", "r", "r", "a">>,
      <<"a", "u", "s", "t", "r", "i", "a">>,
      <<"b", "e", "l", "g", "i", "u", "m">>,
      <<"c", "r", "o", "a", "t", "i", "a">>,
      <<"c", "y", "p", "r", "u", "s">>,
      <<"e", "s", "t", "o", "n", "i", "a">>,
      <<"f", "i", "n", "l", "a", "n", "d">>,
      <<"f", "r", "a", "n", "c", "e">>,
      <<"g", "e", "r", "m", "a", "n", "y">>,
      <<"g", "r", "e", "e", "c", "e">>,
      <<"i", "r", "e", "l", "a", "n", "d">>,
      <<"i", "t", "a", "l", "y">>,
      <<"l", "a", "t", "v", "i", "a">>,
      <<"l", "i", "t", "h", "u", "a", "n", "i", "a">>,
      <<"l", "u", "x", "e", "m", "b", "o", "u", "r", "g">>,
      <<"m", "a", "l", "t", "a">>,
      <<"m", "o", "n", "a", "c", "o">>,
      <<"n", "e", "t", "h", "e", "r", "l", "a", "n", "d", "s">>,
      <<"p", "o", "r", "t", "u", "g", "a", "l">>,
      <<"s", "a", "n", "-", "m", "a", "r", "i", "n", "o">>,
      <<"s", "l", "o", "v", "a", "k", "i", "a">>,
      <<"s", "l", "o", "v", "e", "n", "i", "a">>,
      <<"s", "p", "a", "i", "n">>,
      <<"v", "a", "t", "i", "c", "a", "n">>>>

\* a token that \w matches: a digit, the underscore, or a word of letters
IsWordToken(c) == c \notin Whitespace \cup {":", ",", ".", "-", "/", "$", "EUR-sign"}
\* the pieces of a class attribute that the patterns look for, re.I
ClassMatches(class, words) == \E k \in DOMAIN class : class[k] \in words
ArticleWords == {"coin", "post", "entry", "Coin", "Post", "Entry"}
ContainerWords == {"coin", "image", "thumbnail", "Coin", "Image", "Thumbnail"}

\* re.search(r'\b(20\d{2})\b', text): Nothing, or Some(the four digits)
YearAt(text, starts) ==
    IF starts = {} THEN Nothing
    ELSE Some(SubSeq(text, MinOf(starts), MinOf(starts) + 3))
YearSearch(text) ==
    YearAt(text, {i \in DOMAIN text :
                     /\ i + 3 <= Len(text)
                     /\ text[i] = "2" /\ text[i + 1] = "0"
                     /\ IsDigit(text[i + 2]) /\ IsDigit(text[i + 3])
                     /\ (i = 1 \/ ~IsWordToken(text[i - 1]))
                     /\ (i + 3 = Len(text) \/ ~IsWordToken(text[i + 4]))})

\* re.search(label + r'[:\s]+' + prefix + r'([0-9,.]+)', text, re.I) with an
\* optional one-token prefix: Nothing, or Some(group 1) of the leftmost match.
\* FigureStart is where group 1 starts for the label at text[i], 0 without a match.
IsFigureChar(c) == IsDigit(c) \/ c = "," \/ c = "."
FigureStartAfter(text, a, g, prefixes) ==
    IF a = 0 THEN 0
    ELSE IF g <= Len(text) /\ IsFigureChar(text[g]) THEN g
    ELSE IF g + 1 <= Len(text) /\ text[g] \in prefixes /\ IsFigureChar(text[g + 1])
         THEN g + 1
    ELSE 0
FigureRun(text, i, a, prefixes) == FigureStartAfter(text, a, i + a + 1, prefixes)
FigureStart(text, i, prefixes) == FigureRun(text, i, RunLen(text, i + 1, IsSepChar), prefixes)
FigureGroup(text, g) == SubSeq(text, g, g + RunLen(text, g, IsFigureChar) - 1)
FigureIn(text, starts, prefixes) ==
    IF starts = {} THEN Nothing
    ELSE Some(FigureGroup(text, FigureStart(text, MinOf(starts), prefixes)))
LabelledFigure(text, labels, prefixes) ==
    FigureIn(text,
             {i \in DOMAIN text : text[i] \in labels /\ FigureStart(text, i, prefixes) # 0},
             prefixes)

\* float(s) in cents, for a string of digits and full stops: ok is FALSE where
\* float raises ValueError; digits after the second decimal are not counted
FloatAt(s, d, has_dot) ==
    [ok |-> TRUE,
     val |-> 100 * DigitsValue(SubSeq(s, 1, d - 1))
             + (IF has_dot THEN DigitsValue(SubSeq(s \o <<"0", "0">>, d + 1, d + 2)) ELSE 0)]
FloatWith(s, dots) ==
    IF Cardinality(dots) > 1 \/ \A i \in DOMAIN s : ~IsDigit(s[i])
    THEN [ok |-> FALSE, val |-> 0]
    ELSE FloatAt(s, IF dots = {} THEN Len(s) + 1 ELSE MinOf(dots), dots # {})
PyFloat(s) == FloatWith(s, {i \in DOMAIN s : s[i] = "."})

MintageLabels ==
    {"mintage", "tirage", "tiragem", "Mintage", "Tirage", "Tiragem", "MINTAGE"}
CurrencySigns == {"EUR-sign", "$"}

\* lines 189-208: the price of one grade, from the match of its pattern
PriceOfFloat(f) == IF f.ok THEN Some(f.val) ELSE Nothing
PriceOfMatch(m) ==
    IF IsNone(m) THEN Nothing ELSE PriceOfFloat(PyFloat(ReplaceChar(m[1], ",", ".")))
PriceOf(text, labels) == PriceOfMatch(LabelledFigure(text, labels, CurrencySigns))

\* TwoEurosScraper.extract_prices(text): the prices found, in cents; a grade
\* without a price holds Nothing
extract_prices(text) ==
    [fdc |-> PriceOf(text, {"FDC", "fdc", "Fdc"}),
     bu |-> PriceOf(text, {"BU", "bu", "Bu"}),
     be |-> PriceOf(text, {"BE", "be", "Be"})]

\* lines 98-100 and 148-150: the image URL of an img element
ResolvedUrl(image_url) ==
    IF image_url # <<>> /\ ~StartsWithHttp(image_url)
    THEN TwoEurosScraper_self["base_url"] \o image_url
    ELSE image_url
FirstSource(src, data_src) == IF src # <<>> THEN src ELSE data_src
ImageUrlOf(img) ==
    ResolvedUrl(FirstSource(IF IsNone(img.src) THEN <<>> ELSE img.src[1],
                            IF IsNone(img.data_src) THEN <<>> ELSE img.data_src[1]))

\* country.replace('-', ' ').title()
CountryName(slug) == Title(ReplaceChar(slug, "-", " "))

\* f"Piece commemorative {year}" (accents dropped)
DefaultDescription(year_digits) == <<"Piece commemorative", " ">> \o year_digits

\* lines 118-126: the mintage read from the text of the article
ArticleMintageOfInt(parsed) == IF parsed.ok THEN parsed.val ELSE DefaultMintage
ArticleMintageOfMatch(mintage_match) ==
    IF IsNone(mintage_match) THEN DefaultMintage
    ELSE ArticleMintageOfInt(PyInt(Strip(Remove(Remove(mintage_match[1], ","), "."))))
ArticleMintage(text) == ArticleMintageOfMatch(LabelledFigure(text, MintageLabels, {}))

\* lines 131-140 and 172-181: the record returned; a price of Nothing is
\* replaced by the estimate
PricedCoin(country, year_digits, description, m, image_url, prices) ==
    [tag |-> "coin",
     coin |-> [country |-> CountryName(country),
               year |-> DigitsValue(year_digits),
               description |-> description,
               mintage |-> m,
               image_url |-> image_url,
               value_fdc |-> IF IsNone(prices.fdc)
                             THEN TwoEurosScraper_estimate_value(m, "fdc")
                             ELSE prices.fdc[1],
               value_bu |-> IF IsNone(prices.bu)
                            THEN TwoEurosScraper_estimate_value(m, "bu")
                            ELSE prices.bu[1],
               value_be |-> IF IsNone(prices.be)
                            THEN TwoEurosScraper_estimate_value(m, "be")
                            ELSE prices.be[1]]]

\* lines 102-140: the article with its title and the match of its year
ArticleCoin(article, country, title, year_match) ==
    IF IsNone(year_match) THEN [tag |-> "none"]
    ELSE PricedCoin(country, year_match[1],
                    IF title # <<>> THEN Prefix(title, MaxDescription)
                    ELSE DefaultDescription(year_match[1]),
                    ArticleMintage(article.text),
                    ImageUrlOf(article.img[1]),
                    extract_prices(article.text))

\* TwoEurosScraper.extract_coin_from_article(article, country)
extract_coin_from_article(article, country) ==
    IF IsNone(article.img) THEN [tag |-> "none"]
    ELSE ArticleCoin(article, country,
                     IF IsNone(article.title) THEN <<>> ELSE Strip(article.title[1]),
                     YearSearch(article.text))

\* lines 152-160: the first title that is not empty among the element, its
\* parent and its next sibling
TitleOf(near) == IF IsNone(near) THEN <<>> ELSE Strip(near[1])
RECURSIVE FirstTitleFrom(_, _)
FirstTitleFrom(title, rest) ==
    IF title # <<>> \/ rest = <<>> THEN title
    ELSE FirstTitleFrom(TitleOf(Head(rest)), Tail(rest))
FirstTitle(near) == FirstTitleFrom(<<>>, near)

\* lines 162-181: the container with its title and the match of its year
NoPrices == [fdc |-> Nothing, bu |-> Nothing, be |-> Nothing]
ContainerCoin(container, country, title, year_match) ==
    IF IsNone(year_match) THEN [tag |-> "none"]
    ELSE PricedCoin(country, year_match[1], Prefix(title, MaxDescription),
                    DefaultMintage, ImageUrlOf(container.img[1]), NoPrices)
TitledContainer(container, country, title) ==
    ContainerCoin(container, country, title,
                  IF title # <<>> THEN YearSearch(title) ELSE Nothing)

\* TwoEurosScraper.extract_coin_from_container(container, country)
extract_coin_from_container(container, country) ==
    IF IsNone(container.img) THEN [tag |-> "none"]
    ELSE TitledContainer(container, country, FirstTitle(container.near))

\* lines 68-75: the coins of the articles, in order
RECURSIVE ArticleCoins(_, _)
ArticleCoins(elements, country) ==
    IF elements = <<>> THEN <<>>
    ELSE CoinOfResult(extract_coin_from_article(Head(elements), country))
         \o ArticleCoins(Tail(elements), country)

\* lines 80-87: the coins of the image containers, in order
RECURSIVE ContainerCoins(_, _)
ContainerCoins(elements, country) ==
    IF elements = <<>> THEN <<>>
    ELSE CoinOfResult(extract_coin_from_container(Head(elements), country))
         \o ContainerCoins(Tail(elements), country)

\* soup.find_all(['article', 'div'], class_=re.compile('coin|post|entry', re.I))
CoinArticles(page) ==
    SelectSeq(page, LAMBDA e : e.tag \in {"article", "div"}
                               /\ ClassMatches(e.class, ArticleWords))
\* soup.find_all(['div', 'figure', 'a'], class_=re.compile('coin|image|thumbnail', re.I))
ImgContainers(page) ==
    SelectSeq(page, LAMBDA e : e.tag \in {"div", "figure", "a"}
                               /\ ClassMatches(e.class, ContainerWords))

\* The mutant runs the image scan on every page.
CoinsOrContainers_Both(page, country, found) ==
    found \o ContainerCoins(ImgContainers(page), country)

\* lines 78-87: the fallback to the image containers when no article gave a coin
CoinsOrContainers(page, country, found) ==
    IF found = <<>> THEN ContainerCoins(ImgContainers(page), country) ELSE found

\* TwoEurosScraper.parse_country_page(soup, country)
parse_country_page(page, country) ==
    CoinsOrContainers(page, country, ArticleCoins(CoinArticles(page), country))

\* The boxes tried.  Texts: every text of at most MaxTextLen tokens over
\* TextAlphabet, and the sample texts of real pages.
MaxTextLen == 4
TextAlphabet == {"Issuing volume", ":", " ", "\n", ",", "5", "0", "."}
RECURSIVE TextsOfLen(_)
TextsOfLen(n) ==
    IF n = 0 THEN {<<>>}
    ELSE {Append(t, c) : t \in TextsOfLen(n - 1), c \in TextAlphabet}
Texts == UNION {TextsOfLen(n) : n \in 0..MaxTextLen}

France == <<"F", "r", "a", "n", "c", "e">>
Volume5M == <<"Issuing volume", ":", " ", "5", ",", "0", "0", "0", ",", "0", "0", "0">>
SampleTexts ==
    {Volume5M,
     <<"Issuing volume", ":", " ", "5", ".", "0", "0", "0", ".", "0", "0", "0">>,
     <<"issuing volume", " ", "7", "5", "0", " ", "0", "0", "0", "\n">>,
     <<"Issuing volume", ":", " ", "2", ".", "5", " ", "m", "i", "l", "l", "i", "o", "n">>,
     <<"Issuing volume", ":", " ", "1", "2", "a", "b", "c">>,
     <<"Issuing volume", ":", " ", "u", "n", "k", "n", "o", "w", "n">>,
     <<"Issuing date", ":", " ", "2", "0", "2", "4">>}
RelativeSrc == <<"/img/x.png">>
AbsoluteSrc == <<"http", "s://www.ecb.europa.eu/img/x.png">>
SampleH3 == {Nothing, Some(France), Some(<<" ">> \o France \o <<"\n">>)}
SampleImg ==
    {Nothing, Some([src |-> Nothing]), Some([src |-> Some(<<>>)]),
     Some([src |-> Some(RelativeSrc)]), Some([src |-> Some(AbsoluteSrc)])}
SampleP ==
    {Nothing,
     Some(<<"Feature", ":", " ", "Paris 2024">>),
     Some(<<"Paris 2024", "\n">>)}
Boxes ==
    \* every structure, with the sample texts
    {[h3 |-> h, img |-> i, content_box |-> cb] :
        h \in SampleH3, i \in SampleImg,
        cb \in {Nothing} \cup {Some([p |-> q, rest |-> t]) : q \in SampleP, t \in SampleTexts}}
    \cup
    \* every text, in a box with a country and an absolute image
    {[h3 |-> Some(France), img |-> Some([src |-> Some(AbsoluteSrc)]),
      content_box |-> Some([p |-> Nothing, rest |-> t])] : t \in Texts}
Years == 2004..2024

InitExtract ==
    /\ pc = "extract"
    /\ box \in Boxes
    /\ year \in {2004, 2024}
    /\ box_result = None
    /\ year_coins = None
    /\ IdleValue
    /\ IdleMerge
    /\ IdleScrape
    /\ IdleApi
    /\ IdlePage

\* one call of extract_coin_from_box on the box, and one of parse_year_page on
\* the page that holds this box alone
ExtractBox ==
    /\ pc = "extract"
    /\ box_result' = extract_coin_from_box(box, year)
    /\ year_coins' = parse_year_page(<<box>>, year)
    /\ pc' = "extracted"
    /\ UNCHANGED <<box, year, valueVars, mergeVars, scrapeVars, apiVars, pageVars>>

NextExtract == ExtractBox

SpecExtract == InitExtract /\ [][NextExtract]_vars

\* The box of C6: a country, a relative image source and the issuing volume of
\* five million (with any first paragraph).
IsC6Box(b) ==
    /\ ~IsNone(b.h3)
    /\ b.img = Some([src |-> Some(RelativeSrc)])
    /\ ~IsNone(b.content_box)
    /\ b.content_box[1].rest = Volume5M

\* C6: a page whose single box has an h3 country, the content-box text
\* "Issuing volume: 5,000,000" and a relative image source yields exactly one
\* record, with mintage 5000000, the image URL made absolute with the source's
\* base URL, and value_fdc 3.0.
C6_RelativeImageYieldsRecord ==
    (pc = "extracted" /\ IsC6Box(box)) =>
        /\ Len(year_coins) = 1
        /\ year_coins[1].mintage = 5000000
        /\ year_coins[1].image_url = EcbBaseUrl \o RelativeSrc
        /\ year_coins[1].value_fdc = Euro(3)

\* The issuing-volume figure of a text, read without the code's pattern: after
\* a label and at least one separator (colon, whitespace), the tokens up to the
\* next whitespace.  Nothing where no separator or no token follows the label.
FigureAfter(text, i) ==
    LET a == RunLen(text, i + 1, IsSepChar)
        g == i + a + 1
        n == RunLen(text, g, LAMBDA c : c \notin Whitespace)
    IN  IF a = 0 \/ n = 0 THEN Nothing ELSE Some(SubSeq(text, g, g + n - 1))
\* a figure is well formed when it is made of digits and commas, with a digit
WellFormedFigure(f) ==
    /\ \A k \in DOMAIN f : IsDigit(f[k]) \/ f[k] = ","
    /\ \E k \in DOMAIN f : IsDigit(f[k])
\* the figure without the full stops that end a sentence
RECURSIVE WithoutFinalStops(_)
WithoutFinalStops(f) ==
    IF f # <<>> /\ f[Len(f)] = "." THEN WithoutFinalStops(SubSeq(f, 1, Len(f) - 1)) ELSE f
\* the text has no figure (no label, or nothing after it), or only malformed ones
FigureMissingOrMalformed(text) ==
    \A i \in DOMAIN text :
        text[i] \in IssuingVolumeLabels =>
            LET f == FigureAfter(text, i)
            IN  IsNone(f) \/ ~WellFormedFigure(WithoutFinalStops(f[1]))

\* C7: for every content-box text whose issuing-volume figure is missing or
\* malformed, extract_coin_from_box produces a record whose mintage is exactly
\* 1,000,000 (boxes whose image source is relative set aside: see C6).
C7_MalformedVolumeDefaults ==
    (/\ pc = "extracted"
     /\ ~IsNone(box.content_box)
     /\ box.img # Some([src |-> Some(RelativeSrc)])
     /\ FigureMissingOrMalformed(ContentText(box.content_box[1]))) =>
        /\ box_result.tag = "coin"
        /\ box_result.coin.mintage = DefaultMintage

\* The mintages tried: around 0 and around every band limit, and a large one.
MintageDelta == 2
BandLimits == {0, 100000, 500000, 1000000, 5000000}
Mintages ==
    {b + d : b \in BandLimits, d \in (0 - MintageDelta)..MintageDelta} \cup {30000000}
\* The condition tags tried: the three grades and two tags that are not grades.
Conditions == {"fdc", "bu", "be", "FDC", "unc"}
Grades == {"fdc", "bu", "be"}

InitValue ==
    /\ pc = "estimate"
    /\ mintage \in Mintages
    /\ condition \in Conditions
    /\ value_ecb = None
    /\ value_2e = None
    /\ IdleExtract
    /\ IdleMerge
    /\ IdleScrape
    /\ IdleApi
    /\ IdlePage

EstimateValue ==
    /\ pc = "estimate"
    /\ value_ecb' = CoinScraper_estimate_value(mintage, condition)
    /\ value_2e' = TwoEurosScraper_estimate_value(mintage, condition)
    /\ pc' = "estimated"
    /\ UNCHANGED <<mintage, condition, extractVars, mergeVars, scrapeVars, apiVars, pageVars>>

NextValue == EstimateValue

SpecValue == InitValue /\ [][NextValue]_vars

\* The band table of the specification, as a function of the band's number.
BandTable ==
    <<[fdc |-> 15, bu |-> 30, be |-> 60],
      [fdc |-> 8, bu |-> 15, be |-> 30],
      [fdc |-> 5, bu |-> 10, be |-> 20],
      [fdc |-> 4, bu |-> 7, be |-> 14],
      [fdc |-> 3, bu |-> 5, be |-> 10]>>
BandOf(m) ==
    1 + Cardinality({l \in {100000, 500000, 1000000, 5000000} : m >= l})

\* C8: for every mintage >= 0 and every grade, estimate_value returns the entry
\* of the band table for the band containing the mintage; no larger mintage
\* gets a larger value for the same grade; and both scrapers' estimate_value
\* return the same value.
C8_BandTable ==
    (pc = "estimated" /\ mintage >= 0 /\ condition \in Grades) =>
        /\ value_ecb = Euro(BandTable[BandOf(mintage)][condition])
        /\ value_2e = value_ecb
        /\ \A m2 \in Mintages :
               m2 >= mintage =>
                   /\ CoinScraper_estimate_value(m2, condition) <= value_ecb
                   /\ TwoEurosScraper_estimate_value(m2, condition) <= value_2e

C8_Witness ==
    /\ pc = "estimated"
    /\ mintage = 100000
    /\ condition = "bu"
    /\ value_ecb = Euro(15)
    /\ value_2e = Euro(15)

\* The lists tried: every list of at most MaxPrimary sample primary records and
\* every list of at most MaxSecondary sample secondary records (a record may
\* occur twice in a list).
MaxPrimary == 2
MaxSecondary == 2
SanMarino == <<"S", "a", "n", " ", "M", "a", "r", "i", "n", "o">>
EurosSrc == <<"http", "s://www.2euros.org/img/fr2004.jpg">>
SampleEcbCoins ==
    {[country |-> France, year |-> 2004, description |-> <<"Olympic Games">>,
      mintage |-> 5000000, image_url |-> AbsoluteSrc,
      value_fdc |-> Euro(3), value_bu |-> Euro(5), value_be |-> Euro(10)],
     [country |-> <<"F", "R", "A", "N", "C", "E">>, year |-> 2004,
      description |-> <<"Piece commemorative">>,
      mintage |-> 750000, image_url |-> FallbackImage,
      value_fdc |-> Euro(5), value_bu |-> Euro(10), value_be |-> Euro(20)],
     [country |-> SanMarino, year |-> 2024, description |-> <<"Paris 2024">>,
      mintage |-> 60000, image_url |-> AbsoluteSrc,
      value_fdc |-> Euro(15), value_bu |-> Euro(30), value_be |-> Euro(60)]}
SampleEurosCoins ==
    {[country |-> France, year |-> 2004, description |-> <<"France 2004">>,
      mintage |-> 1000000, image_url |-> EurosSrc,
      value_fdc |-> 750, value_bu |-> 1250, value_be |-> 2500],
     [country |-> <<" ">> \o France, year |-> 2004, description |-> <<"France 2004 bis">>,
      mintage |-> 1000000, image_url |-> FallbackImage,
      value_fdc |-> Euro(4), value_bu |-> Euro(7), value_be |-> Euro(14)],
     [country |-> SanMarino, year |-> 2024, description |-> <<"San Marino 2024">>,
      mintage |-> 80000, image_url |-> <<>>,
      value_fdc |-> Euro(15), value_bu |-> 3350, value_be |-> Euro(60)],
     [country |-> France, year |-> 2024, description |-> <<"France 2024">>,
      mintage |-> 1000000, image_url |-> EurosSrc,
      value_fdc |-> Euro(4), value_bu |-> Euro(7), value_be |-> Euro(14)]}
RECURSIVE ListsOfLen(_, _)
ListsOfLen(S, n) ==
    IF n = 0 THEN {<<>>} ELSE {Append(l, x) : l \in ListsOfLen(S, n - 1), x \in S}
ListsUpTo(S, n) == UNION {ListsOfLen(S, k) : k \in 0..n}

InitMerge ==
    /\ pc = "merge"
    /\ ecb_coins \in ListsUpTo(SampleEcbCoins, MaxPrimary)
    /\ coins_2euros \in ListsUpTo(SampleEurosCoins, MaxSecondary)
    /\ merged = None
    /\ IdleValue
    /\ IdleExtract
    /\ IdleScrape
    /\ IdleApi
    /\ IdlePage

\* one call of merge_coin_data
MergeCoinData ==
    /\ pc = "merge"
    /\ pc' = "merged"
    /\ merged' = merge_coin_data(ecb_coins, coins_2euros)
    /\ ecb_coins' = EcbAfter(ecb_coins, merged')
    /\ coins_2euros' = EurosAfter(coins_2euros, merged')
    /\ UNCHANGED <<valueVars, extractVars, scrapeVars, apiVars, pageVars>>

NextMerge == MergeCoinData

SpecMerge == InitMerge /\ [][NextMerge]_vars

\* C4: every composite of the merged list is built from a primary and a
\* secondary record with the same MergeKey, and has the primary's country,
\* year, description and mintage and the secondary's three values.
C4_CompositeFields ==
    pc = "merged" =>
        \A k \in DOMAIN merged :
            merged[k].src = "new" =>
                LET p == ecb_coins[merged[k].i]
                    q == coins_2euros[merged[k].j]
                    c == merged[k].coin
                IN  /\ MergeKey(p) = MergeKey(q)
                    /\ c.country = p.country
                    /\ c.year = p.year
                    /\ c.description = p.description
                    /\ c.mintage = p.mintage
                    /\ c.value_fdc = q.value_fdc
                    /\ c.value_bu = q.value_bu
                    /\ c.value_be = q.value_be

\* a primary record written in capitals is matched with a secondary record
\* written with a leading blank, whose values differ from the primary's
C4_Witness ==
    /\ pc = "merged"
    /\ \E k \in DOMAIN merged :
           /\ merged[k].src = "new"
           /\ ecb_coins[merged[k].i].country # coins_2euros[merged[k].j].country
           /\ ecb_coins[merged[k].i].value_bu # coins_2euros[merged[k].j].value_bu
           /\ merged[k].coin.value_bu = coins_2euros[merged[k].j].value_bu

\* the positions of the secondary list that the merge matched with a primary
MatchedSecondary == {merged[k].j : k \in {n \in DOMAIN merged : merged[n].src = "new"}}
StandAlone(j) == {k \in DOMAIN merged : merged[k].src = "2euros" /\ merged[k].j = j}

\* C5: every secondary record never matched with a primary record is in the
\* output exactly once, unchanged, after all primary-derived entries, and no
\* matched secondary record is in the output as an entry of its own.
C5_UnmatchedSecondary ==
    pc = "merged" =>
        /\ \A j \in DOMAIN coins_2euros :
               IF j \in MatchedSecondary
               THEN StandAlone(j) = {}
               ELSE /\ Cardinality(StandAlone(j)) = 1
                    /\ \A k \in StandAlone(j) :
                           /\ merged[k].coin = coins_2euros[j]
                           /\ \A n \in DOMAIN merged :
                                  merged[n].src # "2euros" => n < k
        /\ \A k \in DOMAIN merged : merged[k].src # "2euros" <=> k <= Len(ecb_coins)

\* one secondary record matched, and an equal one left over after two primaries
C5_Witness ==
    /\ pc = "merged"
    /\ Len(ecb_coins) = 2
    /\ Len(coins_2euros) = 2
    /\ coins_2euros[1] = coins_2euros[2]
    /\ MatchedSecondary = {1}
    /\ merged[3].src = "2euros"
    /\ merged[3].j = 2

(***************************************************************************)
(* The pipeline (CoinScraper.scrape_coins)                                 *)
(***************************************************************************)

\* CoinScraper.get_initial_coin_data: the second definition of the class body
\* (line 226), which replaces the first (line 222).  Accents are dropped.
get_initial_coin_data ==
    <<
      [country |-> <<"F", "r", "a", "n", "c", "e">>, year |-> 2024,
       description |-> <<"Jeux Olympiques et Paralympiques Paris 2024">>,
       mintage |-> 5000000,
       image_url |-> <<"http", "s://images.", "unsplash", ".com/photo-1585483391381-b96dda4fae8f?q=85&w=600&auto=format&fit=crop">>,
       value_fdc |-> 500, value_bu |-> 800, value_be |-> 1500],
      [country |-> <<"F", "r", "a", "n", "c", "e">>, year |-> 2023,
       description |-> <<"200 ans de la naissance de Louis Pasteur">>,
       mintage |-> 3000000,
       image_url |-> <<"http", "s://images.", "unsplash", ".com/photo-1630856826965-f274fce8e532?q=85&w=600&auto=format&fit=crop">>,
       value_fdc |-> 450, value_bu |-> 750, value_be |-> 1400],
      [country |-> <<"F", "r", "a", "n", "c", "e">>, year |-> 2022,
       description |-> <<"Simone Veil">>,
       mintage |-> 4000000,
       image_url |-> <<"http", "s://images.", "unsplash", ".com/photo-1585483391381-b96dda4fae8f?q=85&w=600&auto=format&fit=crop">>,
       value_fdc |-> 400, value_bu |-> 700, value_be |-> 1300],
      [country |-> <<"A", "l", "l", "e", "m", "a", "g", "n", "e">>, year |-> 2024,
       description |-> <<"Thuringe">>,
       mintage |-> 30000000,
       image_url |-> <<"http", "s://images.", "unsplash", ".com/photo-1634108941345-3a6a66685563?q=85&w=600&auto=format&fit=crop">>,
       value_fdc |-> 350, value_bu |-> 600, value_be |-> 1200],
      [country |-> <<"A", "l", "l", "e", "m", "a", "g", "n", "e">>, year |-> 2023,
       description |-> <<"Mecklembourg-Pomeranie-Occidentale">>,
       mintage |-> 30000000,
       image_url |-> <<"http", "s://images.", "unsplash", ".com/photo-1634108941345-3a6a66685563?q=85&w=600&auto=format&fit=crop">>,
       value_fdc |-> 350, value_bu |-> 600, value_be |-> 1200],
      [country |-> <<"I", "t", "a", "l", "i", "e">>, year |-> 2024,
       description |-> <<"150e anniversaire de la naissance de Guglielmo Marconi">>,
       mintage |-> 3000000,
       image_url |-> <<"http", "s://images.", "unsplash", ".com/photo-1630856826965-f274fce8e532?q=85&w=600&auto=format&fit=crop">>,
       value_fdc |-> 450, value_bu |-> 800, value_be |-> 1500],
      [country |-> <<"I", "t", "a", "l", "i", "e">>, year |-> 2023,
       description |-> <<"150 ans de la mort d'Alessandro Manzoni">>,
       mintage |-> 3000000,
       image_url |-> <<"http", "s://images.", "unsplash", ".com/photo-1585483391381-b96dda4fae8f?q=85&w=600&auto=format&fit=crop">>,
       value_fdc |-> 400, value_bu |-> 750, value_be |-> 1400],
      [country |-> <<"E", "s", "p", "a", "g", "n", "e">>, year |-> 2024,
       description |-> <<"Presidence du Conseil de l'UE">>,
       mintage |-> 3000000,
       image_url |-> <<"http", "s://images.", "unsplash", ".com/photo-1634108941345-3a6a66685563?q=85&w=600&auto=format&fit=crop">>,
       value_fdc |-> 400, value_bu |-> 700, value_be |-> 1300],
      [country |-> <<"E", "s", "p", "a", "g", "n", "e">>, year |-> 2023,
       description |-> <<"Avila">>,
       mintage |-> 1000000,
       image_url |-> <<"http", "s://images.", "unsplash", ".com/photo-1630856826965-f274fce8e532?q=85&w=600&auto=format&fit=crop">>,
       value_fdc |-> 500, value_bu |-> 900, value_be |-> 1600],
      [country |-> <<"B", "e", "l", "g", "i", "q", "u", "e">>, year |-> 2024,
       description |-> <<"Presidence belge du Conseil de l'UE">>,
       mintage |-> 200000,
       image_url |-> <<"http", "s://images.", "unsplash", ".com/photo-1585483391381-b96dda4fae8f?q=85&w=600&auto=format&fit=crop">>,
       value_fdc |-> 600, value_bu |-> 1200, value_be |-> 2200],
      [country |-> <<"L", "u", "x", "e", "m", "b", "o", "u", "r", "g">>, year |-> 2024,
       description |-> <<"200 ans de la Constitution">>,
       mintage |-> 500000,
       image_url |-> <<"http", "s://images.", "unsplash", ".com/photo-1634108941345-3a6a66685563?q=85&w=600&auto=format&fit=crop">>,
       value_fdc |-> 550, value_bu |-> 1000, value_be |-> 1800],
      [country |-> <<"P", "o", "r", "t", "u", "g", "a", "l">>, year |-> 2024,
       description |-> <<"50 ans de la Revolution des illets">>,
       mintage |-> 1000000,
       image_url |-> <<"http", "s://images.", "unsplash", ".com/photo-1630856826965-f274fce8e532?q=85&w=600&auto=format&fit=crop">>,
       value_fdc |-> 500, value_bu |-> 850, value_be |-> 1600],
      [country |-> <<"G", "r", "e", "c", "e">>, year |-> 2024,
       description |-> <<"150 ans de la naissance de Constantin Caratheodory">>,
       mintage |-> 750000,
       image_url |-> <<"http", "s://images.", "unsplash", ".com/photo-1585483391381-b96dda4fae8f?q=85&w=600&auto=format&fit=crop">>,
       value_fdc |-> 500, value_bu |-> 900, value_be |-> 1700],
      [country |-> <<"P", "a", "y", "s", "-", "B", "a", "s">>, year |-> 2024,
       description |-> <<"Effigie du Roi Willem-Alexander">>,
       mintage |-> 3000000,
       image_url |-> <<"http", "s://images.", "unsplash", ".com/photo-1634108941345-3a6a66685563?q=85&w=600&auto=format&fit=crop">>,
       value_fdc |-> 400, value_bu |-> 700, value_be |-> 1300],
      [country |-> <<"F", "i", "n", "l", "a", "n", "d", "e">>, year |-> 2024,
       description |-> <<"Elections et democratie">>,
       mintage |-> 400000,
       image_url |-> <<"http", "s://images.", "unsplash", ".com/photo-1630856826965-f274fce8e532?q=85&w=600&auto=format&fit=crop">>,
       value_fdc |-> 550, value_bu |-> 1000, value_be |-> 1800],
      [country |-> <<"M", "o", "n", "a", "c", "o">>, year |-> 2024,
       description |-> <<"Prince Albert II">>,
       mintage |-> 15000,
       image_url |-> <<"http", "s://images.", "unsplash", ".com/photo-1585483391381-b96dda4fae8f?q=85&w=600&auto=format&fit=crop">>,
       value_fdc |-> 5000, value_bu |-> 10000, value_be |-> 20000],
      [country |-> <<"V", "a", "t", "i", "c", "a", "n">>, year |-> 2024,
       description |-> <<"Pape Francois">>,
       mintage |-> 80000,
       image_url |-> <<"http", "s://images.", "unsplash", ".com/photo-1634108941345-3a6a66685563?q=85&w=600&auto=format&fit=crop">>,
       value_fdc |-> 2000, value_bu |-> 4000, value_be |-> 8000],
      [country |-> <<"S", "a", "n", " ", "M", "a", "r", "i", "n">>, year |-> 2024,
       description |-> <<"500 ans de la mort du Perugin">>,
       mintage |-> 60000,
       image_url |-> <<"http", "s://images.", "unsplash", ".com/photo-1630856826965-f274fce8e532?q=85&w=600&auto=format&fit=crop">>,
       value_fdc |-> 2500, value_bu |-> 5000, value_be |-> 10000],
      [country |-> <<"M", "a", "l", "t", "e">>, year |-> 2024,
       description |-> <<"Jeux de l'Ile">>,
       mintage |-> 100000,
       image_url |-> <<"http", "s://images.", "unsplash", ".com/photo-1585483391381-b96dda4fae8f?q=85&w=600&auto=format&fit=crop">>,
       value_fdc |-> 1500, value_bu |-> 3000, value_be |-> 6000],
      [country |-> <<"A", "u", "t", "r", "i", "c", "h", "e">>, year |-> 2024,
       description |-> <<"100 ans de la Radio autrichienne">>,
       mintage |-> 1000000,
       image_url |-> <<"http", "s://images.", "unsplash", ".com/photo-1634108941345-3a6a66685563?q=85&w=600&auto=format&fit=crop">>,
       value_fdc |-> 500, value_bu |-> 850, value_be |-> 1600]
    >>

FirstYear == 2004
LastYear == 2024

\* line 30: if not ecb_coins
FallbackNeeded_NoneOnly(ecb) == FALSE

FallbackNeeded(ecb) == ecb = <<>>

\* The mutant puts the page's coins in front of the list.
Extend_Prepend(list, more) == more \o list

\* lines 121 and 45 of scraper_2euros.py: list.extend
Extend(list, more) == list \o more

\* The mutant lets the exception leave scrape_coins.
OuterExcept_Reraise == [pc |-> "raised", result |-> <<>>]

\* lines 52-54: the handler of an exception that leaves the body of scrape_coins
OuterExcept == [pc |-> "done", result |-> get_initial_coin_data]

\* What the sites answer.  Only the pages of HotYears and of the countries at
\* HotCountries hold boxes or elements: at most MaxBoxes sample boxes, at most
\* MaxElements sample elements.  Every request may also fail or be answered
\* with another status than 200.
MaxBoxes == 1
MaxElements == 1
HotYears == {2004, 2024}
HotCountries == {8, 20}
PipelineBoxes ==
    {\* a coin of France, five million, absolute image
     [h3 |-> Some(France), img |-> Some([src |-> Some(AbsoluteSrc)]),
      content_box |-> Some([p |-> Some(<<"Feature", ":", " ", "Olympic Games">>),
                            rest |-> Volume5M])],
     \* the same with a relative image
     [h3 |-> Some(France), img |-> Some([src |-> Some(RelativeSrc)]),
      content_box |-> Some([p |-> Some(<<"Feature", ":", " ", "Olympic Games">>),
                            rest |-> Volume5M])],
     \* a coin of San Marino without image and without issuing volume
     [h3 |-> Some(SanMarino), img |-> Nothing,
      content_box |-> Some([p |-> Some(<<"Paris 2024">>), rest |-> <<>>])],
     \* a box without content-box
     [h3 |-> Some(France), img |-> Some([src |-> Some(AbsoluteSrc)]),
      content_box |-> Nothing]}
PipelineElements ==
    {\* an article with image, year, mintage and a price
     [tag |-> "article", class |-> <<"post">>,
      img |-> Some([src |-> Some(EurosSrc), data_src |-> Nothing]),
      title |-> Some(<<"Coin", " ", "2", "0", "0", "4">>),
      text |-> <<"Coin", " ", "2", "0", "0", "4", "\n", "mintage", ":", " ",
                 "7", "5", "0", ".", "0", "0", "0", "\n",
                 "FDC", ":", " ", "7", ",", "5", "0", " ", "EUR-sign">>,
      near |-> <<Some(<<"Coin", " ", "2", "0", "0", "4">>), Nothing, Nothing>>],
     \* an article whose img has no source
     [tag |-> "article", class |-> <<"coin", "-item">>,
      img |-> Some([src |-> Nothing, data_src |-> Nothing]),
      title |-> Nothing,
      text |-> <<"Issue", " ", "2", "0", "2", "4">>,
      near |-> <<Nothing, Nothing, Nothing>>],
     \* a figure with a lazy-loaded relative image, titled by its parent
     [tag |-> "figure", class |-> <<"thumbnail">>,
      img |-> Some([src |-> Nothing, data_src |-> Some(<<"/img/sm2024.jpg">>)]),
      title |-> Nothing,
      text |-> <<>>,
      near |-> <<Nothing, Some(<<"Coin", " ", "2", "0", "2", "4">>), Nothing>>],
     \* a div of class coin without image
     [tag |-> "div", class |-> <<"coin">>,
      img |-> Nothing,
      title |-> Some(<<"Coin", " ", "2", "0", "0", "4">>),
      text |-> <<"Coin", " ", "2", "0", "0", "4">>,
      near |-> <<Some(<<"Coin", " ", "2", "0", "0", "4">>), Nothing, Nothing>>]}
EcbPages(y) == IF y \in HotYears THEN ListsUpTo(PipelineBoxes, MaxBoxes) ELSE {<<>>}
EurosPages(i) ==
    IF i \in HotCountries THEN ListsUpTo(PipelineElements, MaxElements) ELSE {<<>>}

Init ==
    /\ pc = "scrape_ecb"
    /\ year = FirstYear
    /\ coins = <<>>
    /\ ecb_coins = Unbound
    /\ coins_2euros = Unbound
    /\ merged = Unbound
    /\ country_i = 1
    /\ all_coins = <<>>
    /\ result = Unbound
    /\ requests = <<>>
    /\ slept = FALSE
    /\ back_to_back = FALSE
    /\ statuses = {}
    /\ ok_pages = <<>>
    /\ box = None
    /\ box_result = None
    /\ year_coins = None
    /\ IdleValue
    /\ IdleApi
    /\ IdlePage

\* one request of a fetch loop for `item`: the record of the requests
Request(item) ==
    /\ requests' = Append(requests, item)
    /\ back_to_back' = (back_to_back \/ (requests # <<>> /\ ~slept))

\* scrape_ecb_coins, one year: status 200, the page parsed, the delay
EcbFetchOk ==
    /\ pc = "scrape_ecb"
    /\ year <= LastYear
    /\ \E page \in EcbPages(year) :
           /\ coins' = Extend(coins, parse_year_page(page, year))
           /\ ok_pages' = IF page = <<>> THEN ok_pages
                          ELSE Append(ok_pages, [year |-> year, page |-> page])
    /\ Request(year)
    /\ slept' = TRUE
    /\ statuses' = statuses \cup {"ok"}
    /\ year' = year + 1
    /\ UNCHANGED <<pc, ecb_coins, coins_2euros, merged, country_i, all_coins, result,
                   box, box_result, year_coins, valueVars, apiVars, pageVars>>

\* scrape_ecb_coins, one year: another status, the delay
EcbFetchNon200 ==
    /\ pc = "scrape_ecb"
    /\ year <= LastYear
    /\ Request(year)
    /\ slept' = TRUE
    /\ statuses' = statuses \cup {"non200"}
    /\ year' = year + 1
    /\ UNCHANGED <<pc, coins, ok_pages, ecb_coins, coins_2euros, merged, country_i,
                   all_coins, result, box, box_result, year_coins, valueVars, apiVars, pageVars>>

\* The mutant leaves the loop at the first exception.
ExceptContinue_Break(y) == LastYear + 1

\* the handler of lines 128-130: `continue` goes on with the next year
ExceptContinue(y) == y + 1

\* scrape_ecb_coins, one year: the request (or the parser) raises; the handler
\* continues with the next year, past the delay
EcbFetchRaises ==
    /\ pc = "scrape_ecb"
    /\ year <= LastYear
    /\ Request(year)
    /\ slept' = FALSE
    /\ statuses' = statuses \cup {"raise"}
    /\ year' = ExceptContinue(year)
    /\ UNCHANGED <<pc, coins, ok_pages, ecb_coins, coins_2euros, merged, country_i,
                   all_coins, result, box, box_result, year_coins, valueVars, apiVars, pageVars>>

\* scrape_ecb_coins returns its list (line 133)
EcbReturn ==
    /\ pc = "scrape_ecb"
    /\ year > LastYear
    /\ pc' = "ecb_returned"
    /\ ecb_coins' = coins
    /\ UNCHANGED <<year, coins, coins_2euros, merged, country_i, all_coins, result,
                   loopVars, box, box_result, year_coins, valueVars, apiVars, pageVars>>

\* an exception leaves scrape_ecb_coins (raised outside the try of the loop:
\* the client of line 110); the handler of scrape_coins returns the fallback
EcbRaises ==
    /\ pc = "scrape_ecb"
    /\ requests = <<>>
    /\ pc' = OuterExcept.pc
    /\ result' = OuterExcept.result
    /\ UNCHANGED <<year, coins, ecb_coins, coins_2euros, merged, country_i, all_coins,
                   loopVars, box, box_result, year_coins, valueVars, apiVars, pageVars>>

\* lines 30-32: no coin from the ECB, the fallback list is returned
ReturnFallback ==
    /\ pc = "ecb_returned"
    /\ FallbackNeeded(ecb_coins)
    /\ pc' = "done"
    /\ result' = get_initial_coin_data
    /\ UNCHANGED <<year, coins, ecb_coins, coins_2euros, merged, country_i, all_coins,
                   loopVars, box, box_result, year_coins, valueVars, apiVars, pageVars>>

\* lines 35-38: the secondary scraper is started
StartSecondary ==
    /\ pc = "ecb_returned"
    /\ ~FallbackNeeded(ecb_coins)
    /\ pc' = "scrape_2euros"
    /\ requests' = <<>>
    /\ slept' = FALSE
    /\ ok_pages' = <<>>
    /\ UNCHANGED <<year, coins, ecb_coins, coins_2euros, merged, country_i, all_coins,
                   result, back_to_back, statuses,
                   box, box_result, year_coins, valueVars, apiVars, pageVars>>

\* scrape_all_coins, one country: status 200, the page parsed, the delay
EurosFetchOk ==
    /\ pc = "scrape_2euros"
    /\ country_i <= Len(Countries)
    /\ \E page \in EurosPages(country_i) :
           all_coins' = Extend(all_coins, parse_country_page(page, Countries[country_i]))
    /\ Request(country_i)
    /\ slept' = TRUE
    /\ country_i' = country_i + 1
    /\ UNCHANGED <<pc, year, coins, ecb_coins, coins_2euros, merged, result,
                   statuses, ok_pages, box, box_result, year_coins, valueVars, apiVars, pageVars>>

\* scrape_all_coins, one country: another status, the delay
EurosFetchNon200 ==
    /\ pc = "scrape_2euros"
    /\ country_i <= Len(Countries)
    /\ Request(country_i)
    /\ slept' = TRUE
    /\ country_i' = country_i + 1
    /\ UNCHANGED <<pc, year, coins, ecb_coins, coins_2euros, merged, all_coins, result,
                   statuses, ok_pages, box, box_result, year_coins, valueVars, apiVars, pageVars>>

\* scrape_all_coins, one country: the request (or the parser) raises; the
\* handler continues with the next country, past the delay
EurosFetchRaises ==
    /\ pc = "scrape_2euros"
    /\ country_i <= Len(Countries)
    /\ Request(country_i)
    /\ slept' = FALSE
    /\ country_i' = country_i + 1
    /\ UNCHANGED <<pc, year, coins, ecb_coins, coins_2euros, merged, all_coins, result,
                   statuses, ok_pages, box, box_result, year_coins, valueVars, apiVars, pageVars>>

\* scrape_all_coins returns its list (line 59): at the end of the loop, or
\* from the handler of line 55 when the client cannot be opened
EurosReturn ==
    /\ pc = "scrape_2euros"
    /\ country_i > Len(Countries) \/ requests = <<>>
    /\ pc' = "2euros_returned"
    /\ coins_2euros' = all_coins
    /\ UNCHANGED <<year, coins, ecb_coins, merged, country_i, all_coins, result,
                   loopVars, box, box_result, year_coins, valueVars, apiVars, pageVars>>

\* lines 41-45: the secondary list is not empty, the merged list is returned
MergeAndReturn ==
    /\ pc = "2euros_returned"
    /\ coins_2euros # <<>>
    /\ pc' = "done"
    /\ merged' = merge_coin_data(ecb_coins, coins_2euros)
    /\ result' = Contents(merged')
    /\ UNCHANGED <<year, coins, ecb_coins, coins_2euros, country_i, all_coins,
                   loopVars, box, box_result, year_coins, valueVars, apiVars, pageVars>>

\* line 50: the secondary list is empty, the ECB list is returned
ReturnEcb ==
    /\ pc = "2euros_returned"
    /\ coins_2euros = <<>>
    /\ pc' = "done"
    /\ result' = ecb_coins
    /\ UNCHANGED <<year, coins, ecb_coins, coins_2euros, merged, country_i, all_coins,
                   loopVars, box, box_result, year_coins, valueVars, apiVars, pageVars>>

\* The mutant answers an exception of the optional block with the fallback list.
InnerExcept_Fallback(ecb) == [pc |-> "done", result |-> get_initial_coin_data]

\* lines 46-50: the handler of the optional block logs, and line 50 returns
\* the ECB list
InnerExcept(ecb) == [pc |-> "done", result |-> ecb]

\* lines 46-50: an exception in the optional block, the ECB list is returned
SecondaryRaises ==
    /\ pc \in {"scrape_2euros", "2euros_returned"}
    /\ pc = "scrape_2euros" => requests = <<>>
    /\ pc' = InnerExcept(ecb_coins).pc
    /\ result' = InnerExcept(ecb_coins).result
    /\ UNCHANGED <<year, coins, ecb_coins, coins_2euros, merged, country_i, all_coins,
                   loopVars, box, box_result, year_coins, valueVars, apiVars, pageVars>>

Next ==
    \/ EcbFetchOk
    \/ EcbFetchNon200
    \/ EcbFetchRaises
    \/ EcbReturn
    \/ EcbRaises
    \/ ReturnFallback
    \/ StartSecondary
    \/ EurosFetchOk
    \/ EurosFetchNon200
    \/ EurosFetchRaises
    \/ EurosReturn
    \/ MergeAndReturn
    \/ ReturnEcb
    \/ SecondaryRaises

Spec == Init /\ [][Next]_vars

\* One run of scrape_ecb_coins alone, under its scheduler: the event loop
\* resumes the coroutine when an awaited request (timeout of 30 s, line 110)
\* or delay completes.  Every step changes pc or year.
NextEcb ==
    \/ EcbFetchOk
    \/ EcbFetchNon200
    \/ EcbFetchRaises
    \/ EcbReturn
    \/ EcbRaises

SpecEcb == Init /\ [][NextEcb]_vars /\ WF_<<pc, year>>(NextEcb)

\* C1: whatever the outcomes of the primary and of the secondary fetches
\* (status 200 with any records, another status, an exception), scrape_coins
\* does not raise to its caller, and the list it returns is not empty.
C1_NeverRaisesNeverEmpty ==
    /\ pc # "raised"
    /\ pc = "done" => result # <<>>

\* a run that met the three outcomes and has returned
C1_Witness ==
    /\ pc = "done"
    /\ statuses = {"ok", "non200", "raise"}
    /\ result # <<>>

\* C2: when no ECB year page was fetched with status 200 in the run, the list
\* returned by scrape_coins is the static fallback list: 20 records, the first
\* one of France, 2024, with a mintage of 5000000.
C2_NoPageGivesFallback ==
    (pc = "done" /\ "ok" \notin statuses) =>
        /\ result = get_initial_coin_data
        /\ Len(result) = 20
        /\ result[1].country = France
        /\ result[1].year = 2024
        /\ result[1].mintage = 5000000

\* a run whose requests were all answered by another status or raised
C2_Witness ==
    /\ pc = "done"
    /\ statuses = {"non200", "raise"}
    /\ Len(requests) = LastYear - FirstYear + 1
    /\ result = get_initial_coin_data

\* the records of a list of pages, page after page
RECURSIVE PagesCoins(_)
PagesCoins(pages) ==
    IF pages = <<>> THEN <<>>
    ELSE parse_year_page(Head(pages).page, Head(pages).year) \o PagesCoins(Tail(pages))

\* C3: the list returned by scrape_ecb_coins is the concatenation, in the
\* order of the years 2004..2024, of the records extracted from the pages that
\* came with status 200; a page with another status adds nothing and every
\* year of the range is requested.
C3_Non200SkippedLoopGoesOn ==
    pc = "ecb_returned" =>
        /\ ecb_coins = PagesCoins(ok_pages)
        /\ \A i, j \in DOMAIN ok_pages : i < j => ok_pages[i].year < ok_pages[j].year
        /\ \A i, j \in DOMAIN ecb_coins : i < j => ecb_coins[i].year <= ecb_coins[j].year
        /\ requests = [k \in 1..(LastYear - FirstYear + 1) |-> FirstYear + k - 1]

\* a run with a year answered by another status than 200 between two years
\* that gave a record each
C3_Witness ==
    /\ pc = "ecb_returned"
    /\ "non200" \in statuses
    /\ Len(ecb_coins) = 2
    /\ ecb_coins[1].year = FirstYear
    /\ ecb_coins[2].year = LastYear

\* C9: every record of the list returned by scrape_coins has its country, its
\* year, its description, its mintage, its image_url and its three values
\* populated; the image_url is never empty.
C9_AllFieldsPopulated ==
    pc = "done" =>
        \A k \in DOMAIN result :
            /\ result[k].country # <<>>
            /\ result[k].year > 0
            /\ result[k].description # <<>>
            /\ result[k].mintage > 0
            /\ result[k].image_url # <<>>
            /\ result[k].value_fdc > 0
            /\ result[k].value_bu > 0
            /\ result[k].value_be > 0

(***************************************************************************)
(* Collection API (server.py)                                              *)
(*                                                                         *)
(* The handlers are coroutines on one event loop: a handler runs alone     *)
(* from one await to the next, and other requests run while it waits for   *)
(* the database.  A request is a slot of Requests; handler[p] is "idle"    *)
(* before it arrives, then the await its handler stands at, then "done".   *)
(* db.collection is the sequence of its documents, a document being        *)
(* [id, coin_id, user_id, condition, notes] (added_date is left out: no    *)
(* handler reads it); an id is a number, the uuid_count-th uuid4 drawn.    *)
(***************************************************************************)

MaxRequests == 2
CatalogSize == 2
Requests == 1..MaxRequests
\* user_id is a query parameter of every route, compared with no document of
\* db.users
UserIds == {"u1", "u2"}
\* the ids of the catalog, and 0, the id of no coin
CoinIds == 0..CatalogSize
Conditions_Api == {"FDC", "BU"}
NotesTexts == {Nothing, Some("gift")}

\* the answers: an HTTPException with its status and detail (accents dropped), or
\* the dict returned, sent with status 200
HTTPException(status_code, detail) ==
    [status_code |-> status_code, success |-> FALSE, detail |-> detail]
Success(message) == [status_code |-> 200, success |-> TRUE, detail |-> message]

\* lines 102-112: the catalog inserted by initialize_database, one Coin with a
\* fresh id for each record; here the first CatalogSize records of the list
Catalog == [k \in 1..CatalogSize |->
               [id |-> k,
                country |-> get_initial_coin_data[k].country,
                year |-> get_initial_coin_data[k].year,
                value_fdc |-> get_initial_coin_data[k].value_fdc,
                value_bu |-> get_initial_coin_data[k].value_bu,
                value_be |-> get_initial_coin_data[k].value_be]]

\* pwd_context.hash and pwd_context.verify: a hash is not the password, and
\* verifies the password it was made from and no other
Hash(password) == [scheme |-> "bcrypt", of |-> password]
Verify(password, hashed) == hashed.of = password

\* lines 92-100: the user inserted by initialize_database
Users == <<[id |-> "uuid-of-Ludivine", username |-> "Ludivine",
            password |-> Hash("Ludivine67")]>>

\* db.<collection>.find_one(query): Nothing, or Some(the first document that
\* the query matches)
FindOneAt(docs, found) == IF found = {} THEN Nothing ELSE Some(docs[MinOf(found)])

\* The mutant looks the coin up with an empty query: any coin is found.
find_coin_AnyCoin(docs, coin_id) == FindOneAt(docs, DOMAIN docs)

\* line 188: db.coins.find_one({"id": request.coin_id})
find_coin(docs, coin_id) == FindOneAt(docs, {k \in DOMAIN docs : docs[k].id = coin_id})

\* The mutant looks for an item of the pair in the condition of the request.
existing_SameCondition(docs, user_id, req) ==
    FindOneAt(docs, {k \in DOMAIN docs : /\ docs[k].user_id = user_id
                                         /\ docs[k].coin_id = req.coin_id
                                         /\ docs[k].condition = req.condition})

\* lines 193-196: db.collection.find_one({"user_id": user_id, "coin_id":
\* request.coin_id})
existing(docs, user_id, req) ==
    FindOneAt(docs, {k \in DOMAIN docs : /\ docs[k].user_id = user_id
                                         /\ docs[k].coin_id = req.coin_id})

\* lines 200-208: the document of a CollectionItem
CollectionItem(id, req) ==
    [id |-> id, coin_id |-> req.coin_id, user_id |-> req.user_id,
     condition |-> req.condition, notes |-> req.notes]

\* The mutant matches on the id alone.
Matched_ById(docs, item_id, user_id) == {k \in DOMAIN docs : docs[k].id = item_id}

\* delete_one and update_one act on the first document matched
Matched(docs, item_id, user_id) ==
    {k \in DOMAIN docs : docs[k].id = item_id /\ docs[k].user_id = user_id}
DeleteAt(docs, k) == SubSeq(docs, 1, k - 1) \o SubSeq(docs, k + 1, Len(docs))
\* lines 222-226: update_data
update_data(req) ==
    [condition |-> IF ~IsNone(req.condition) /\ req.condition[1] # "" THEN req.condition
                   ELSE Nothing,
     notes |-> req.notes]
\* {"$set": update_data} on document k; notes=None in the request leaves the notes
SetAt(docs, k, data) ==
    [docs EXCEPT ![k].condition = IF IsNone(data.condition) THEN @ ELSE data.condition[1],
                 ![k].notes = IF IsNone(data.notes) THEN @ ELSE data.notes]

InitApi ==
    /\ pc = "serving"
    /\ db_users = Users
    /\ db_coins = Catalog
    /\ db_collection = <<>>
    /\ handler = [p \in Requests |-> "idle"]
    /\ request = [p \in Requests |-> [route |-> "none"]]
    /\ response = [p \in Requests |-> [status_code |-> 0, success |-> FALSE, detail |-> ""]]
    /\ uuid_count = 0
    /\ IdleValue
    /\ IdleExtract
    /\ IdleMerge
    /\ IdleScrape
    /\ IdlePage

\* request p arrives: the requests arrive in the order of their slots
Arrives(p) ==
    /\ handler[p] = "idle"
    /\ \A q \in Requests : q < p => handler[q] # "idle"

\* the handler of p ends with the answer `answer`
Answer(p, answer) ==
    /\ handler' = [handler EXCEPT ![p] = "done"]
    /\ response' = [response EXCEPT ![p] = answer]

\* add_to_collection, lines 186-190: the request arrives and the coin is
\* looked up
add_to_collection_coin(p) ==
    /\ Arrives(p)
    /\ \E user_id \in UserIds, coin_id \in CoinIds,
          cond \in Conditions_Api, notes \in NotesTexts :
           request' = [request EXCEPT ![p] =
                          [route |-> "add_to_collection", user_id |-> user_id,
                           coin_id |-> coin_id, condition |-> cond, notes |-> notes]]
    /\ IF IsNone(find_coin(db_coins, request'[p].coin_id))
       THEN Answer(p, HTTPException(404, "Piece non trouvee"))
       ELSE /\ handler' = [handler EXCEPT ![p] = "find_existing"]
            /\ UNCHANGED response
    /\ UNCHANGED <<pc, db_users, db_coins, db_collection, uuid_count,
                   valueVars, extractVars, mergeVars, scrapeVars, pageVars>>

\* add_to_collection, lines 192-198: the item of the pair is looked up
add_to_collection_existing(p) ==
    /\ handler[p] = "find_existing"
    /\ IF ~IsNone(existing(db_collection, request[p].user_id, request[p]))
       THEN Answer(p, HTTPException(400, "Piece deja dans la collection"))
       ELSE /\ handler' = [handler EXCEPT ![p] = "insert_one"]
            /\ UNCHANGED response
    /\ UNCHANGED <<pc, db_users, db_coins, db_collection, request, uuid_count,
                   valueVars, extractVars, mergeVars, scrapeVars, pageVars>>

\* add_to_collection, lines 200-211: the item is inserted
add_to_collection_insert(p) ==
    /\ handler[p] = "insert_one"
    /\ uuid_count' = uuid_count + 1
    /\ db_collection' = Append(db_collection, CollectionItem(uuid_count', request[p]))
    /\ Answer(p, Success("Piece ajoutee a la collection"))
    /\ UNCHANGED <<pc, db_users, db_coins, request,
                   valueVars, extractVars, mergeVars, scrapeVars, pageVars>>

\* the ids an item may have, and the fields an update may carry
ItemIds == 1..MaxRequests
UpdateConditions == {Nothing, Some(""), Some("BE")}

\* remove_from_collection, lines 214-218: the request arrives, delete_one runs
remove_from_collection(p) ==
    /\ Arrives(p)
    /\ \E item_id \in ItemIds, user_id \in UserIds :
           /\ request' = [request EXCEPT ![p] =
                             [route |-> "remove_from_collection",
                              item_id |-> item_id, user_id |-> user_id]]
           /\ IF Matched(db_collection, item_id, user_id) = {}
              THEN /\ Answer(p, HTTPException(404, "Element non trouve"))
                   /\ UNCHANGED db_collection
              ELSE /\ Answer(p, Success("Piece retiree de la collection"))
                   /\ db_collection' =
                          DeleteAt(db_collection, MinOf(Matched(db_collection, item_id, user_id)))
    /\ UNCHANGED <<pc, db_users, db_coins, uuid_count,
                   valueVars, extractVars, mergeVars, scrapeVars, pageVars>>

\* update_collection_item, lines 221-239: the request arrives, update_one runs
\* unless there is nothing to set
update_collection_item(p) ==
    /\ Arrives(p)
    /\ \E item_id \in ItemIds, user_id \in UserIds,
          cond \in UpdateConditions, notes \in NotesTexts :
           /\ request' = [request EXCEPT ![p] =
                             [route |-> "update_collection_item",
                              item_id |-> item_id, user_id |-> user_id,
                              condition |-> cond, notes |-> notes]]
           /\ IF IsNone(update_data(request'[p]).condition)
                 /\ IsNone(update_data(request'[p]).notes)
              THEN /\ Answer(p, HTTPException(400, "Aucune donnee a mettre a jour"))
                   /\ UNCHANGED db_collection
              ELSE IF Matched(db_collection, item_id, user_id) = {}
              THEN /\ Answer(p, HTTPException(404, "Element non trouve"))
                   /\ UNCHANGED db_collection
              ELSE /\ Answer(p, Success("Collection mise a jour"))
                   /\ db_collection' =
                          SetAt(db_collection,
                                MinOf(Matched(db_collection, item_id, user_id)),
                                update_data(request'[p]))
    /\ UNCHANGED <<pc, db_users, db_coins, uuid_count,
                   valueVars, extractVars, mergeVars, scrapeVars, pageVars>>

\* the credentials tried
Usernames == {"Ludivine", "ludivine", ""}
Passwords == {"Ludivine67", "ludivine67", ""}

\* line 120: db.users.find_one({"username": request.username}, {"_id": 0})
find_user(docs, username) == FindOneAt(docs, {k \in DOMAIN docs : docs[k].username = username})

\* The mutant answers with the whole document of the user.
user_data_WithPassword(user) == user

\* line 129: the document without its password
user_data(user) == [k \in DOMAIN user \ {"password"} |-> user[k]]

\* LoginResponse, sent with status 200
LoginResponse(success, message, user) ==
    [status_code |-> 200, success |-> success, detail |-> message, user |-> user]

\* lines 122-136: the answer of login for the document found
LoginAnswer(user, password) ==
    IF IsNone(user) \/ ~Verify(password, user[1].password)
    THEN LoginResponse(FALSE, "Identifiants incorrects", Nothing)
    ELSE LoginResponse(TRUE, "Connexion reussie", Some(user_data(user[1])))

\* login, lines 119-136: the request arrives, find_one runs, the answer is sent
login(p) ==
    /\ Arrives(p)
    /\ \E username \in Usernames, password \in Passwords :
           /\ request' = [request EXCEPT ![p] =
                             [route |-> "login", username |-> username,
                              password |-> password]]
           /\ Answer(p, LoginAnswer(find_user(db_users, username), password))
    /\ UNCHANGED <<pc, db_users, db_coins, db_collection, uuid_count,
                   valueVars, extractVars, mergeVars, scrapeVars, pageVars>>

\* lines 168 and 245: db.collection.find({"user_id": user_id}).to_list(1000),
\* the items of the user in insertion order
collection_items(docs, user_id) == SelectSeq(docs, LAMBDA item : item.user_id = user_id)

\* the items whose coin is found (`if coin:`, lines 174, 252 and 265)
WithCoin(items, catalog) ==
    SelectSeq(items, LAMBDA item : ~IsNone(find_coin(catalog, item.coin_id)))

\* lines 171-183: the result of get_collection, each item with its coin
Enriched(found, catalog) ==
    [k \in DOMAIN found |->
        [item |-> found[k], coin |-> find_coin(catalog, found[k].coin_id)[1]]]

\* the answer of a GET route, sent with status 200
Body(body) == [status_code |-> 200, success |-> TRUE, detail |-> "", body |-> body]

\* get_collection, lines 167-183: the request arrives, the items of the user
\* are read and each one's coin is looked up in db.coins, which no route writes
get_collection(p) ==
    /\ Arrives(p)
    /\ \E user_id \in UserIds :
           /\ request' = [request EXCEPT ![p] =
                             [route |-> "get_collection", user_id |-> user_id]]
           /\ Answer(p, Body(Enriched(WithCoin(collection_items(db_collection, user_id),
                                               db_coins),
                                      db_coins)))
    /\ UNCHANGED <<pc, db_users, db_coins, db_collection, uuid_count,
                   valueVars, extractVars, mergeVars, scrapeVars, pageVars>>

\* item["condition"].lower() on the tags of the requests
condition_lower(cond) ==
    CASE cond = "FDC" -> "fdc" [] cond = "BU" -> "bu" [] cond = "BE" -> "be"
      [] OTHER -> cond

\* lines 254-259: the value of an item's coin in the item's condition (cents)
ItemValue(coin, cond) ==
    IF cond \in {"fdc", "bu", "be"}
    THEN [fdc |-> coin.value_fdc, bu |-> coin.value_bu, be |-> coin.value_be][cond]
    ELSE 0

\* lines 249-259: total_value over the items whose coin is found
RECURSIVE total_value(_, _)
total_value(found, catalog) ==
    IF found = <<>> THEN 0
    ELSE ItemValue(find_coin(catalog, Head(found).coin_id)[1],
                   condition_lower(Head(found).condition))
         + total_value(Tail(found), catalog)

\* lines 262-267: by_country over the items whose coin is found
CountryOf(item, catalog) == find_coin(catalog, item.coin_id)[1].country
by_country(found, catalog) ==
    [country \in {CountryOf(found[k], catalog) : k \in DOMAIN found} |->
        Cardinality({k \in DOMAIN found : CountryOf(found[k], catalog) = country})]

\* lines 269 and 274: the percentage in hundredths, rounded to the
\* nearest (no quotient of the catalogs tried falls half-way)
completion_percentage(owned_coins, total_coins) ==
    IF total_coins > 0
    THEN (2 * 10000 * owned_coins + total_coins) \div (2 * total_coins)
    ELSE 0

\* lines 271-277: Stats
Stats(items, catalog) ==
    [total_coins |-> Len(catalog),
     owned_coins |-> Len(items),
     completion_percentage |-> completion_percentage(Len(items), Len(catalog)),
     total_value |-> total_value(WithCoin(items, catalog), catalog),
     by_country |-> by_country(WithCoin(items, catalog), catalog)]

\* get_stats, lines 242-277: the request arrives, the catalog is counted, the
\* items of the user are read and each one's coin is looked up in db.coins
get_stats(p) ==
    /\ Arrives(p)
    /\ \E user_id \in UserIds :
           /\ request' = [request EXCEPT ![p] =
                             [route |-> "get_stats", user_id |-> user_id]]
           /\ Answer(p, Body(Stats(collection_items(db_collection, user_id), db_coins)))
    /\ UNCHANGED <<pc, db_users, db_coins, db_collection, uuid_count,
                   valueVars, extractVars, mergeVars, scrapeVars, pageVars>>

NextApi ==
    \E p \in Requests :
        \/ add_to_collection_coin(p)
        \/ add_to_collection_existing(p)
        \/ add_to_collection_insert(p)
        \/ remove_from_collection(p)
        \/ update_collection_item(p)
        \/ login(p)
        \/ get_collection(p)
        \/ get_stats(p)

SpecApi == InitApi /\ [][NextApi]_vars

\* whether the collection holds an item of the pair
HasItem(docs, user_id, coin_id) ==
    \E k \in DOMAIN docs : docs[k].user_id = user_id /\ docs[k].coin_id = coin_id

\* C10: an add_to_collection for a pair (user_id, coin_id) that has an item in
\* the collection passes the coin lookup without a write and is rejected at the
\* duplicate lookup: the answer is 400, the handler ends there, and the
\* collection (its items, their condition and notes) is left as it was,
\* whatever the condition and the notes of the request.
C10_DuplicateRejected ==
    [][\A p \in Requests :
          (/\ handler'[p] # handler[p]
           /\ handler[p] \in {"idle", "find_existing"}
           /\ request'[p].route = "add_to_collection"
           /\ HasItem(db_collection, request'[p].user_id, request'[p].coin_id))
          => /\ db_collection' = db_collection
             /\ handler[p] = "idle" => /\ handler'[p] = "find_existing"
                                       /\ response'[p] = response[p]
             /\ handler[p] = "find_existing" =>
                    /\ handler'[p] = "done"
                    /\ response'[p].status_code = 400
                    /\ response'[p].detail = "Piece deja dans la collection"]_vars

\* a second add of a pair, in another condition than the item's, was answered
\* 400 and the collection holds the one item
C10_Witness ==
    /\ pc = "serving"
    /\ Len(db_collection) = 1
    /\ \E p \in Requests :
           /\ handler[p] = "done"
           /\ request[p].route = "add_to_collection"
           /\ response[p].status_code = 400
           /\ db_collection[1].user_id = request[p].user_id
           /\ db_collection[1].coin_id = request[p].coin_id
           /\ db_collection[1].condition # request[p].condition
           /\ db_collection[1].notes # request[p].notes

\* C11: login answers with status 200 in every case; success is true exactly
\* when the username is the one of a user and the password is the one that was
\* hashed for this user, and then the answer carries the user's id and no
\* password; otherwise it carries no user data.
C11_LoginAnswers ==
    pc = "serving" =>
        \A p \in Requests :
            (handler[p] = "done" /\ request[p].route = "login") =>
                /\ response[p].status_code = 200
                /\ response[p].success <=>
                       (request[p].username = "Ludivine" /\ request[p].password = "Ludivine67")
                /\ response[p].success =>
                       /\ ~IsNone(response[p].user)
                       /\ response[p].user[1].id = db_users[1].id
                       /\ "password" \notin DOMAIN response[p].user[1]
                /\ ~response[p].success => IsNone(response[p].user)

\* a login that succeeded and a login with a password in another case that did not
C11_Witness ==
    /\ pc = "serving"
    /\ \E p, q \in Requests :
           /\ handler[p] = "done" /\ request[p].route = "login" /\ response[p].success
           /\ handler[q] = "done" /\ request[q].route = "login" /\ ~response[q].success
           /\ request[q].username = "Ludivine"

\* whether `after` is `before` without its k-th document, the others as they
\* were and in their order
IsWithout(before, after, k) ==
    /\ Len(after) = Len(before) - 1
    /\ \A n \in 1..(k - 1) : after[n] = before[n]
    /\ \A n \in k..Len(after) : after[n] = before[n + 1]

WithMergeKey(list, key) == {n \in DOMAIN list : MergeKey(list[n]) = key}
Nth(S, r) == CHOOSE n \in S : Cardinality({m \in S : m <= n}) = r
\* the rank of primary i among the primaries of its key
RankOf(i) ==
    Cardinality({n \in WithMergeKey(ecb_coins, MergeKey(ecb_coins[i])) : n <= i})

\* C13: the secondary records of a key are consumed first in, first out: the
\* r-th primary record of a key is matched with the r-th secondary record of
\* that key, and is matched if and only if the key has that many secondary
\* records, so that a key has min(primaries, secondaries) matches.
C13_FirstInFirstOut ==
    pc = "merged" =>
        /\ \A i \in DOMAIN ecb_coins :
               LET secs == WithMergeKey(coins_2euros, MergeKey(ecb_coins[i]))
                   entries == {k \in DOMAIN merged :
                                  merged[k].src # "2euros" /\ merged[k].i = i}
               IN  /\ Cardinality(entries) = 1
                   /\ \A k \in entries :
                          IF RankOf(i) <= Cardinality(secs)
                          THEN /\ merged[k].src = "new"
                               /\ merged[k].j = Nth(secs, RankOf(i))
                               /\ merged[k].coin.value_fdc
                                      = coins_2euros[Nth(secs, RankOf(i))].value_fdc
                          ELSE merged[k].src = "ecb"
        /\ \A j \in DOMAIN coins_2euros :
               LET key == MergeKey(coins_2euros[j])
                   matches == {k \in DOMAIN merged :
                                  /\ merged[k].src = "new"
                                  /\ MergeKey(merged[k].coin) = key}
               IN  Cardinality(matches)
                       = Min(Cardinality(WithMergeKey(ecb_coins, key)),
                             Cardinality(WithMergeKey(coins_2euros, key)))

\* two primaries and two different secondaries of one key, matched in order
C13_Witness ==
    /\ pc = "merged"
    /\ Len(ecb_coins) = 2
    /\ Len(coins_2euros) = 2
    /\ MergeKey(ecb_coins[1]) = MergeKey(ecb_coins[2])
    /\ coins_2euros[1] # coins_2euros[2]
    /\ merged[1].src = "new" /\ merged[1].j = 1
    /\ merged[2].src = "new" /\ merged[2].j = 2

Pending(i) ==
    Cardinality({n \in WithMergeKey(ecb_coins, MergeKey(ecb_coins[i])) : n < i})
        < Cardinality(WithMergeKey(coins_2euros, MergeKey(ecb_coins[i])))

\* C15: the first len(primary) entries of the output stand, position by
\* position, for the primary records: the i-th is the i-th primary record
\* itself, unchanged, when no secondary record is pending for its key, and
\* otherwise a composite with this primary's country, year, description and
\* mintage.
C15_PrimaryPositions ==
    pc = "merged" =>
        /\ Len(merged) >= Len(ecb_coins)
        /\ \A i \in DOMAIN ecb_coins :
               /\ merged[i].i = i
               /\ IF Pending(i)
                  THEN /\ merged[i].src = "new"
                       /\ merged[i].coin.country = ecb_coins[i].country
                       /\ merged[i].coin.year = ecb_coins[i].year
                       /\ merged[i].coin.description = ecb_coins[i].description
                       /\ merged[i].coin.mintage = ecb_coins[i].mintage
                  ELSE /\ merged[i].src = "ecb"
                       /\ merged[i].coin = ecb_coins[i]

\* a primary passed through at position 1 and a composite at position 2,
\* followed by a secondary record left over
C15_Witness ==
    /\ pc = "merged"
    /\ Len(ecb_coins) = 2
    /\ Len(merged) = 3
    /\ merged[1].src = "ecb"
    /\ merged[2].src = "new"
    /\ merged[2].coin.description # coins_2euros[merged[2].j].description

\* C16: in both fetch loops, no request of a run is sent right after the
\* previous one: the fixed delay (asyncio.sleep) has elapsed in between,
\* whether the earlier request gave status 200, another status, or raised.
C16_DelayBetweenRequests == ~back_to_back

\* the years FirstYear.. in ascending order, n of them
YearsRequested(n) == [k \in 1..n |-> FirstYear + k - 1]

\* C17: a run of scrape_ecb_coins sends one request for each year 2004..2024,
\* in ascending order and one after the other, whatever the outcomes (a failed
\* year is not requested again and does not end the loop), and then returns.
C17_OneRequestPerYear ==
    /\ [](pc = "scrape_ecb" => requests = YearsRequested(year - FirstYear))
    /\ [](pc = "ecb_returned" =>
              /\ Len(requests) = 21
              /\ \A k \in 1..21 : requests[k] = 2003 + k)
    /\ <>(pc # "scrape_ecb")

\* the list returned after a run in which a request raised and a later one
\* gave status 200
C17_Witness ==
    /\ pc = "ecb_returned"
    /\ "raise" \in statuses
    /\ ecb_coins # <<>>
    /\ Len(requests) = 21

\* ---------------------------------------------------------------------------
\* parse_country_page run on one page.  The elements tried are those of the
\* pipeline and a div that only the image scan can read: its text holds no
\* year, the title of its parent does.
MaxPageLen == 3
PageElements ==
    PipelineElements \cup
    {[tag |-> "div", class |-> <<"coin">>,
      img |-> Some([src |-> Some(EurosSrc), data_src |-> Nothing]),
      title |-> Nothing,
      text |-> <<"Coin">>,
      near |-> <<Nothing, Some(<<"Coin", " ", "2", "0", "2", "4">>), Nothing>>]}
Soups == ListsUpTo(PageElements, MaxPageLen)

InitPage ==
    /\ pc = "parse_country_page"
    /\ soup \in Soups
    /\ country_slug \in {Countries[i] : i \in HotCountries}
    /\ country_coins = Unbound
    /\ IdleValue
    /\ IdleExtract
    /\ IdleMerge
    /\ IdleScrape
    /\ IdleApi

\* TwoEurosScraper.parse_country_page(soup, country) returns
ParseCountryPage ==
    /\ pc = "parse_country_page"
    /\ pc' = "parsed"
    /\ country_coins' = parse_country_page(soup, country_slug)
    /\ UNCHANGED <<soup, country_slug, valueVars, extractVars, mergeVars, scrapeVars,
                   apiVars>>

NextPage == ParseCountryPage

SpecPage == InitPage /\ [][NextPage]_vars

\* an element from which no image is obtained: no img, or an img with neither
\* src nor data-src
NoImage(element) ==
    \/ IsNone(element.img)
    \/ IsNone(element.img[1].src) /\ IsNone(element.img[1].data_src)

\* C18: a container from which no image is obtained (no image element, or no
\* image source) is skipped: a page whose elements are all such containers
\* gives no record.
C18_NoImageNoRecord ==
    (pc = "parsed" /\ \A k \in DOMAIN soup : NoImage(soup[k])) => country_coins = <<>>

\* what each strategy gives on the page
Structured == ArticleCoins(CoinArticles(soup), country_slug)
Loose == ContainerCoins(ImgContainers(soup), country_slug)

\* C19: parse_country_page runs the image scan (extract_coin_from_container)
\* exactly when the structured strategy (extract_coin_from_article) gave no
\* record for the page: then the result is what the image scan gives; when
\* the structured strategy gave a record, the result holds the records of the
\* structured strategy and no other.
C19_LooseIffStructuredEmpty ==
    pc = "parsed" =>
        /\ Structured # <<>> => country_coins = Structured
        /\ Structured = <<>> => country_coins = Loose

\* a page on which both strategies find a record, and not the same ones
C19_Witness ==
    /\ pc = "parsed"
    /\ Structured # <<>>
    /\ Loose # <<>>
    /\ \E k \in DOMAIN Loose : \A n \in DOMAIN Structured : Loose[k] # Structured[n]
    /\ country_coins = Structured

\* C20: for every mintage, negative ones included, and every condition tag
\* that is not one of fdc, bu, be, both estimate_value return the fixed default
\* of 4.0; the call changes nothing but its result.
C20_DefaultForOtherTags ==
    /\ [](pc = "estimated" /\ condition \notin Grades =>
              /\ value_ecb = Euro(4)
              /\ value_2e = Euro(4))
    /\ [][pc = "estimate" =>
              /\ pc' = "estimated"
              /\ UNCHANGED <<mintage, condition, extractVars, mergeVars, scrapeVars,
                             apiVars, pageVars>>]_vars

\* a negative mintage with a tag that is not a grade
C20_Witness ==
    /\ pc = "estimated"
    /\ mintage < 0
    /\ condition = "unc"
    /\ value_ecb = Euro(4)
    /\ value_2e = Euro(4)

\* C21: merge_coin_data changes neither of its inputs: after the call the
\* primary and the secondary list hold the same records in the same order,
\* with every field as before; a composite is a record of its own, not one of
\* the input records.
C21_InputsUnchanged ==
    /\ [][pc = "merge" => /\ ecb_coins' = ecb_coins
                          /\ coins_2euros' = coins_2euros]_vars
    /\ [](pc = "merged" =>
              \A n \in DOMAIN merged :
                  (merged[n].i > 0 /\ merged[n].j > 0) => merged[n].src = "new")

\* after a call that built a composite differing from its primary record and
\* passed another primary record and a secondary record through
C21_Witness ==
    /\ pc = "merged"
    /\ \E n \in DOMAIN merged :
           /\ merged[n].src = "new"
           /\ merged[n].coin # ecb_coins[merged[n].i]
           /\ merged[n].coin # coins_2euros[merged[n].j]
    /\ \E n \in DOMAIN merged : merged[n].src = "ecb"
    /\ \E n \in DOMAIN merged : merged[n].src = "2euros"

\* C22: when the primary fetch gave at least one record and the secondary
\* scraper raised or returned no record, scrape_coins returns the primary
\* list itself (the same records in the same order, neither merged nor
\* replaced by the fallback list); and the secondary scraper is not run when
\* the primary fetch gave no record.
C22_PrimaryAloneReturned ==
    /\ (pc = "done" /\ ecb_coins # Unbound /\ ecb_coins # <<>>
            /\ (coins_2euros = Unbound \/ coins_2euros = <<>>)) =>
           /\ result = ecb_coins
           /\ merged = Unbound
    /\ (ecb_coins = Unbound \/ ecb_coins = <<>>) =>
           /\ pc \notin {"scrape_2euros", "2euros_returned"}
           /\ coins_2euros = Unbound
           /\ country_i = 1
           /\ all_coins = <<>>

\* the primary list of two records returned after the secondary scraper raised
C22_Witness ==
    /\ pc = "done"
    /\ ecb_coins # Unbound
    /\ Len(ecb_coins) = 2
    /\ coins_2euros = Unbound
    /\ country_i = 1
    /\ result = ecb_coins

\* C23: whatever the interleaving of the add_to_collection requests being
\* handled, db.collection never holds two items with the same user_id and
\* coin_id.
C23_NoDuplicatePair ==
    \A a, b \in DOMAIN db_collection :
        (db_collection[a].user_id = db_collection[b].user_id
            /\ db_collection[a].coin_id = db_collection[b].coin_id) => a = b

\* the ids of the coins of the catalog
CatalogIds == {db_coins[c].id : c \in DOMAIN db_coins}

\* the sum of the counts of a by_country dict over the countries of S
RECURSIVE SumOver(_, _)
SumOver(counts, S) ==
    IF S = {} THEN 0
    ELSE counts[CHOOSE x \in S : TRUE]
         + SumOver(counts, S \ {CHOOSE x \in S : TRUE})

\* request p is answered in this step, on the route `route`
Answered(p, route) ==
    /\ handler[p] # "done"
    /\ handler'[p] = "done"
    /\ request'[p].route = route

\* the items of the user of request p when it is answered
ItemsOfUser(p) ==
    SelectSeq(db_collection, LAMBDA item : item.user_id = request'[p].user_id)

=============================================================================
